---- MODULE Spec2Model ----
(***************************************************************************)
(* Model of backend/kicad_parser.py: the S-expression tokenizer            *)
(* (tokenize_sexpr), the schematic and board assemblers (parse_kicad_sch,  *)
(* parse_kicad_pcb) and the net-connectivity resolver                      *)
(* (_build_net_connectivity); of the rule checks and report builders of    *)
(* backend/kicad_analyzer.py and backend/analyzer.py; and of the           *)
(* /api/kicad/analyze handler of backend/server.py.                        *)
(*                                                                         *)
(* Text is a sequence of one-character strings, indexed from 0 as in the   *)
(* source (CharAt).  A token tree node is a record: an atom carries its    *)
(* characters, a list carries its children.                                *)
(***************************************************************************)
EXTENDS Integers, Sequences, FiniteSets, TLC

VARIABLES
    text,       \* tokenize_sexpr: the argument
    i,          \* tokenize_sexpr: the scan index
    tokens,     \* tokenize_sexpr: the root list
    stack,      \* tokenize_sexpr: the open lists, each a path from the root
    raised,     \* an exception has escaped tokenize_sexpr
    pc,         \* tokenize_sexpr: "scan", "done" (returned) or "raised"
    result,     \* tokenize_sexpr: the returned value
    sch,            \* parse_kicad_sch: the schematic read from the token tree
    symbols,        \* result["symbols"]
    power_symbols,  \* result["power_symbols"]
    point_items,    \* _build_net_connectivity: key -> items, in insertion order
    parent,         \* _build_net_connectivity: the union-find parent map
    wi,             \* _build_net_connectivity: next wire of the union loop
    groups,         \* _build_net_connectivity: root -> items, in insertion order
    net_names,      \* the net_name each group resolved to, in group order
    unnamed_count,  \* _build_net_connectivity: unnamed_count
    nets,           \* result["nets"]: name -> pin references, in insertion order
    phase,          \* parse_kicad_sch / parse_kicad_pcb: the step the call has reached
    sexpr,          \* parse_kicad_sch / parse_kicad_pcb: the token tree of the content
    pcb,            \* parse_kicad_pcb: result
    failure,        \* the class of the exception that escaped the call, "none" if none
    req,            \* api_kicad_analyze: the request and what its environment holds
    faults,         \* the fault list built so far (all_faults, rule faults)
    report,         \* the report handed back by the report builder
    status,         \* api_kicad_analyze: the status of the response, 0 before it
    calls,          \* the frames of the parser invocations running side by side
    checked         \* the rule checks that have run on the parsed model

tokVars == <<text, i, tokens, stack, raised, pc, result>>

netVars == <<sch, symbols, power_symbols, point_items, parent, wi, groups,
             net_names, unnamed_count, nets, phase>>

netVarsButPhase == <<sch, symbols, power_symbols, point_items, parent, wi, groups,
                     net_names, unnamed_count, nets>>

asmVars == <<sexpr, pcb, failure>>

appVars == <<req, faults, report, status, calls, checked>>

vars == <<tokVars, netVars, asmVars, appVars>>

\* the variables a tokenizer step leaves alone, and those a net step leaves alone
nonTokVars == <<netVars, asmVars, appVars>>
nonNetVars == <<tokVars, asmVars, appVars>>

EmptyMap == [x \in {} |-> x]

\* no parse_kicad_sch call is in progress
NetIdle ==
    /\ sch = [instances |-> <<>>, wires |-> <<>>, labels |-> <<>>, junctions |-> <<>>,
              no_connects |-> <<>>]
    /\ symbols = <<>>
    /\ power_symbols = <<>>
    /\ point_items = <<>>
    /\ parent = EmptyMap
    /\ wi = 0
    /\ groups = <<>>
    /\ net_names = <<>>
    /\ unnamed_count = 0
    /\ nets = <<>>
    /\ phase = "idle"

(***************************************************************************)
(* Bounds and input alphabet                                               *)
(***************************************************************************)
MaxLen == 5

LP == "("
RP == ")"
DQ == "\""
BS == "\\"
SP == " "

\* ' \t\n\r' of the source; the inputs use the space and the newline
WhitespaceChars == {" ", "\t", "\n", "\r"}

Alphabet == {LP, RP, DQ, BS, SP, "a"}

Texts == UNION {[1..n -> Alphabet] : n \in 0..MaxLen}

(***************************************************************************)
(* Token trees                                                             *)
(***************************************************************************)
Atom(cs) == [k |-> "atom", v |-> cs]
List(xs) == [k |-> "list", v |-> xs]
NoValue == [k |-> "none", v |-> <<>>]

\* no assembler call has read a content
AsmIdle ==
    /\ sexpr = NoValue
    /\ pcb = [layers |-> <<>>, nets |-> <<>>, setup |-> <<>>, footprints |-> <<>>,
              segments |-> <<>>, vias |-> <<>>, zones |-> <<>>]
    /\ failure = "none"

\* no request has been received
NoRequest == [source |-> "none", path |-> "none", ai |-> "none", db |-> "none"]

\* no report has been built
NoReport ==
    [faults |-> <<>>, summary |-> [total |-> 0, errors |-> 0, warnings |-> 0, infos |-> 0]]

\* no analysis is in progress and no invocations run side by side
AppIdle ==
    /\ req = NoRequest
    /\ faults = <<>>
    /\ report = NoReport
    /\ status = 0
    /\ calls = <<>>
    /\ checked = {}

Min(a, b) == IF a < b THEN a ELSE b

\* text[j], j counted from 0
CharAt(t, j) == t[j + 1]

\* text[a:b]: Python slicing clamps the end to len(text)
Slice(t, a, b) == SubSeq(t, a + 1, Min(b, Len(t)))

\* the list a stack entry refers to is found by following its path from the root
RECURSIVE LenAt(_, _)
LenAt(xs, path) ==
    IF path = <<>> THEN Len(xs)
    ELSE LenAt(xs[Head(path)].v, Tail(path))

\* stack[k].append(x): the list is shared with the tree, so the tree changes
RECURSIVE AppendAt(_, _, _)
AppendAt(xs, path, x) ==
    IF path = <<>> THEN Append(xs, x)
    ELSE [xs EXCEPT ![Head(path)] = List(AppendAt(xs[Head(path)].v, Tail(path), x))]

\* stack[-1].append(x); IndexError when the stack is empty
AppendTop(s, x) ==
    IF s.stack = <<>>
    THEN [s EXCEPT !.raised = TRUE]
    ELSE [s EXCEPT !.tokens = AppendAt(s.tokens, s.stack[Len(s.stack)], x)]

(***************************************************************************)
(* The five branches of the scan loop; s is [i, tokens, stack, raised]     *)
(***************************************************************************)
\* c == '(': new_list appended to stack[-1] and pushed
open_paren(s) ==
    IF s.stack = <<>>
    THEN [s EXCEPT !.raised = TRUE]
    ELSE LET top == s.stack[Len(s.stack)]
             new_list == top \o <<LenAt(s.tokens, top) + 1>>
         IN [i |-> s.i + 1,
             tokens |-> AppendAt(s.tokens, top, List(<<>>)),
             stack |-> Append(s.stack, new_list),
             raised |-> FALSE]

pop_unguarded(st) == SubSeq(st, 1, Len(st) - 1)

\* if len(stack) > 1: stack.pop()
pop_open_list(st) == IF Len(st) > 1 THEN SubSeq(st, 1, Len(st) - 1) ELSE st

\* c == ')'
close_paren(s) == [s EXCEPT !.stack = pop_open_list(s.stack), !.i = s.i + 1]

\* the scan for the closing quote without the skip after a backslash
RECURSIVE quote_end_without_escape(_, _)
quote_end_without_escape(t, j) ==
    IF j < Len(t) /\ CharAt(t, j) # DQ
    THEN quote_end_without_escape(t, j + 1)
    ELSE j

\* while j < n and text[j] != '"': if text[j] == '\\': j += 1; j += 1
RECURSIVE quote_end(_, _)
quote_end(t, j) ==
    IF j < Len(t) /\ CharAt(t, j) # DQ
    THEN quote_end(t, (IF CharAt(t, j) = BS THEN j + 1 ELSE j) + 1)
    ELSE j

\* c == '"'
quoted_atom(t, s) ==
    LET j == quote_end(t, s.i + 1)
    IN [AppendTop(s, Atom(Slice(t, s.i + 1, j))) EXCEPT !.i = j + 1]

\* c in ' \t\n\r'
whitespace(s) == [s EXCEPT !.i = s.i + 1]

BareStop == {LP, RP, DQ} \cup WhitespaceChars

\* the scan of a bare atom with a backslash added to its stop characters,
\* which the dispatch of the loop does not know
RECURSIVE bare_end_stopping_at_backslash(_, _)
bare_end_stopping_at_backslash(t, j) ==
    IF j < Len(t) /\ CharAt(t, j) \notin (BareStop \cup {BS})
    THEN bare_end_stopping_at_backslash(t, j + 1)
    ELSE j

\* while j < n and text[j] not in '() \t\n\r"': j += 1
RECURSIVE bare_end(_, _)
bare_end(t, j) ==
    IF j < Len(t) /\ CharAt(t, j) \notin BareStop
    THEN bare_end(t, j + 1)
    ELSE j

\* else: bare atom
bare_atom(t, s) ==
    LET j == bare_end(t, s.i)
    IN [AppendTop(s, Atom(Slice(t, s.i, j))) EXCEPT !.i = j]

return_never_unwrapped(toks) == List(toks)

\* return tokens[0] if len(tokens) == 1 else tokens
return_value(toks) == IF Len(toks) = 1 THEN toks[1] ELSE List(toks)

scan_start == [i |-> 0, tokens |-> <<>>, stack |-> <<<<>>>>, raised |-> FALSE]

scan_step(t, s) ==
    LET c == CharAt(t, s.i)
    IN CASE c = LP -> open_paren(s)
         [] c = RP -> close_paren(s)
         [] c = DQ -> quoted_atom(t, s)
         [] c \in WhitespaceChars -> whitespace(s)
         [] OTHER -> bare_atom(t, s)

RECURSIVE scan_loop(_, _)
scan_loop(t, s) ==
    IF s.raised \/ s.i >= Len(t) THEN s ELSE scan_loop(t, scan_step(t, s))

\* the function as a whole: the value returned, NoValue when it raises
tokenize_sexpr(t) ==
    LET s == scan_loop(t, scan_start)
    IN IF s.raised THEN NoValue ELSE return_value(s.tokens)

(***************************************************************************)
(* The tokenizer as a state machine: one action per branch of the loop     *)
(***************************************************************************)
ScanState == [i |-> i, tokens |-> tokens, stack |-> stack, raised |-> raised]

Apply(s) ==
    /\ i' = s.i
    /\ tokens' = s.tokens
    /\ stack' = s.stack
    /\ raised' = s.raised
    /\ pc' = IF s.raised THEN "raised" ELSE "scan"
    /\ UNCHANGED <<text, result>>
    /\ UNCHANGED nonTokVars

Scanning == pc = "scan" /\ i < Len(text)

InitTok ==
    /\ text \in Texts
    /\ i = 0
    /\ tokens = <<>>
    /\ stack = <<<<>>>>
    /\ raised = FALSE
    /\ pc = "scan"
    /\ result = NoValue
    /\ NetIdle
    /\ AsmIdle
    /\ AppIdle

OpenParen == Scanning /\ CharAt(text, i) = LP /\ Apply(open_paren(ScanState))

CloseParen == Scanning /\ CharAt(text, i) = RP /\ Apply(close_paren(ScanState))

QuotedAtom == Scanning /\ CharAt(text, i) = DQ /\ Apply(quoted_atom(text, ScanState))

Whitespace == Scanning /\ CharAt(text, i) \in WhitespaceChars /\ Apply(whitespace(ScanState))

BareAtom == Scanning /\ CharAt(text, i) \notin BareStop /\ Apply(bare_atom(text, ScanState))

Return ==
    /\ pc = "scan"
    /\ i >= Len(text)
    /\ result' = return_value(tokens)
    /\ pc' = "done"
    /\ UNCHANGED <<text, i, tokens, stack, raised>>
    /\ UNCHANGED nonTokVars

NextTok == OpenParen \/ CloseParen \/ QuotedAtom \/ Whitespace \/ BareAtom \/ Return

SpecTok == InitTok /\ [][NextTok]_vars

(***************************************************************************)
(* Token trees handed to the assemblers.  An atom's characters are written *)
(* as one string ("at", "2.54"); the name of a sub-symbol, which the code  *)
(* splits at "_", is written as the sequence of its "_"-delimited parts.   *)
(***************************************************************************)
\* node[j], j counted from 0
El(node, j) == node.v[j + 1]

\* "for item in sexpr": the items of a list; the characters of a str are
\* never lists, so a str has no item that a tag lookup can match
Children(tree) == IF tree.k = "list" THEN tree.v ELSE <<>>

\* isinstance(item, list) and len(item) > 0 and item[0] == tag
is_tagged(item, tag) == item.k = "list" /\ Len(item.v) > 0 /\ item.v[1] = Atom(tag)

_find_nodes(tree, tag) == SelectSeq(Children(tree), LAMBDA item : is_tagged(item, tag))

\* the first child with the tag, None (NoValue) when there is none
_find_node(tree, tag) ==
    LET found == _find_nodes(tree, tag)
    IN IF found = <<>> THEN NoValue ELSE found[1]

\* node[1] if node and len(node) > 1, else the default
_get_value(tree, tag, default) ==
    LET node == _find_node(tree, tag)
    IN IF node.k # "none" /\ Len(node.v) > 1 THEN El(node, 1) ELSE default

\* the first exception raised by a sequence of evaluations, "none" if none
FirstExc(excs) ==
    LET bad == SelectSeq(excs, LAMBDA e : e # "none")
    IN IF bad = <<>> THEN "none" ELSE bad[1]

\* float(s): the numbers the inputs write, in thousandths (lengths in
\* millimetres become micrometres)
FloatTable ==
    ("0" :> 0) @@ ("1" :> 1000) @@ ("2" :> 2000) @@ ("3" :> 3000)
    @@ ("10" :> 10000) @@ ("90" :> 90000) @@ ("180" :> 180000) @@ ("270" :> 270000)
    @@ ("0.25" :> 250) @@ ("0.4" :> 400) @@ ("0.8" :> 800)
    @@ ("2.54" :> 2540) @@ ("-2.54" :> (0 - 2540))
    @@ ("5.08" :> 5080) @@ ("-5.08" :> (0 - 5080))

\* int(s): only integer literals convert
IntTable == ("0" :> 0) @@ ("1" :> 1) @@ ("2" :> 2) @@ ("3" :> 3)

\* float(x): TypeError for a list, ValueError for a str that is no number
float_exc(item) ==
    IF item.k # "atom" THEN "TypeError"
    ELSE IF item.v \notin DOMAIN FloatTable THEN "ValueError" ELSE "none"

float_of(item) == IF float_exc(item) = "none" THEN FloatTable[item.v] ELSE 0

int_exc(item) ==
    IF item.k # "atom" THEN "TypeError"
    ELSE IF item.v \notin DOMAIN IntTable THEN "ValueError" ELSE "none"

int_of(item) == IF int_exc(item) = "none" THEN IntTable[item.v] ELSE 0

\* a rotation read by float(), in whole degrees
Degrees(thousandths) == thousandths \div 1000

\* _get_xy(node): (float(node[1]), float(node[2])) if len(node) >= 3
get_xy_exc_unguarded(node) ==
    IF Len(node.v) < 3 THEN "IndexError"
    ELSE FirstExc(<<float_exc(El(node, 1)), float_exc(El(node, 2))>>)

_get_xy_exc(node) ==
    IF Len(node.v) >= 3
    THEN FirstExc(<<float_exc(El(node, 1)), float_exc(El(node, 2))>>)
    ELSE "none"

_get_xy(node) ==
    IF Len(node.v) >= 3
    THEN <<float_of(El(node, 1)), float_of(El(node, 2))>>
    ELSE <<0, 0>>

_get_xyz_exc(node) ==
    FirstExc(<<IF Len(node.v) > 1 THEN float_exc(El(node, 1)) ELSE "none",
               IF Len(node.v) > 2 THEN float_exc(El(node, 2)) ELSE "none",
               IF Len(node.v) > 3 THEN float_exc(El(node, 3)) ELSE "none">>)

\* _get_xyz(node): each of x, y, rot is read when present, else 0.0
_get_xyz(node) ==
    <<IF Len(node.v) > 1 THEN float_of(El(node, 1)) ELSE 0,
      IF Len(node.v) > 2 THEN float_of(El(node, 2)) ELSE 0,
      IF Len(node.v) > 3 THEN Degrees(float_of(El(node, 3))) ELSE 0>>

\* node[1] if node and len(node) > 1 else default, for a str field
str_field(tree, tag, default) ==
    LET node == _find_node(tree, tag)
    IN IF node.k # "none" /\ Len(node.v) > 1 THEN El(node, 1).v ELSE default

(***************************************************************************)
(* _parse_lib_symbol_pins and the library table of parse_kicad_sch         *)
(***************************************************************************)
LibPin(electrical_type, number, name, x, y, rotation, length, unit) ==
    [electrical_type |-> electrical_type, number |-> number, name |-> name,
     x |-> x, y |-> y, rotation |-> rotation, length |-> length, unit |-> unit]

\* pin_info of one pin node
pin_info(item, unit) ==
    LET at_node == _find_node(item, "at")
        length_node == _find_node(item, "length")
        has(node, n) == node.k # "none" /\ Len(node.v) > n
    IN LibPin(IF Len(item.v) > 1 THEN El(item, 1).v ELSE "passive",
              str_field(item, "number", ""),
              str_field(item, "name", ""),
              IF has(at_node, 1) THEN float_of(El(at_node, 1)) ELSE 0,
              IF has(at_node, 2) THEN float_of(El(at_node, 2)) ELSE 0,
              IF has(at_node, 3) THEN Degrees(float_of(El(at_node, 3))) ELSE 0,
              IF has(length_node, 1) THEN float_of(El(length_node, 1)) ELSE 2540,
              unit)

\* sub_name.rsplit("_", 2): at most three pieces, the leading parts joined
rsplit_2(parts) ==
    IF Len(parts) >= 3
    THEN <<SubSeq(parts, 1, Len(parts) - 2), parts[Len(parts) - 1], parts[Len(parts)]>>
    ELSE parts

\* the unit read from the last piece of the name
sub_unit_from_last_segment(item) ==
    LET sub_name == IF Len(item.v) > 1 THEN El(item, 1).v ELSE <<"">>
        parts == rsplit_2(sub_name)
    IN IF Len(parts) >= 3 /\ parts[Len(parts)] \in DOMAIN IntTable
       THEN IntTable[parts[Len(parts)]]
       ELSE 0

\* the unit a sub-symbol's name encodes; 0 when the name has fewer than
\* three pieces or the second-to-last is no integer
sub_unit_of(item) ==
    LET sub_name == IF Len(item.v) > 1 THEN El(item, 1).v ELSE <<"">>
        parts == rsplit_2(sub_name)
    IN IF Len(parts) >= 3 /\ parts[Len(parts) - 1] \in DOMAIN IntTable
       THEN IntTable[parts[Len(parts) - 1]]
       ELSE 0

\* "for item in lib_symbol": pins of this level, then of each sub-symbol
RECURSIVE pins_of_items(_, _)
pins_of_items(items, unit) ==
    IF items = <<>> THEN <<>>
    ELSE LET item == Head(items)
         IN (IF is_tagged(item, "pin") THEN <<pin_info(item, unit)>>
             ELSE IF is_tagged(item, "symbol")
                  THEN pins_of_items(item.v, sub_unit_of(item))
                  ELSE <<>>)
            \o pins_of_items(Tail(items), unit)

_parse_lib_symbol_pins(lib_symbol, unit) == pins_of_items(lib_symbol.v, unit)

\* result["lib_symbols"]: a later definition of a lib_id replaces an earlier
lib_symbols_of(content) ==
    LET lib_symbols_node == _find_node(content, "lib_symbols")
        defs == SelectSeq(_find_nodes(lib_symbols_node, "symbol"),
                          LAMBDA sym_node : Len(sym_node.v) > 1)
        last(id) == defs[CHOOSE n \in 1..Len(defs) :
                            /\ El(defs[n], 1).v = id
                            /\ \A m \in (n + 1)..Len(defs) : El(defs[m], 1).v # id]
    IN [id \in {El(defs[n], 1).v : n \in 1..Len(defs)} |->
          [pins |-> _parse_lib_symbol_pins(last(id), 0),
           is_power |-> _find_node(last(id), "power").k # "none"]]

(***************************************************************************)
(* The library of the inputs                                               *)
(***************************************************************************)
Node(tag, rest) == List(<<Atom(tag)>> \o rest)

PinNode(etype, x, y, rot, length, name, number) ==
    Node("pin", <<Atom(etype), Atom("line"),
                  Node("at", <<Atom(x), Atom(y), Atom(rot)>>),
                  Node("length", <<Atom(length)>>),
                  Node("name", <<Atom(name)>>),
                  Node("number", <<Atom(number)>>)>>)

\* a two-pin resistor whose pin tips are (0, 0) and (2.54, 0); a one-pin
\* power symbol; a two-unit part with a shared pin and a sub-symbol whose
\* name encodes no unit; a part whose sub-symbols are nested and named with
\* two, three and four parts; a symbol whose pins leave fields out
LibSymbolsNode ==
    Node("lib_symbols", <<
        Node("symbol", <<Atom("Device:R"),
            Node("symbol", <<Atom(<<"R", "0", "1">>), Node("rectangle", <<>>)>>),
            Node("symbol", <<Atom(<<"R", "1", "1">>),
                PinNode("passive", "-2.54", "0", "0", "2.54", "", "1"),
                PinNode("passive", "5.08", "0", "180", "2.54", "", "2")>>)>>),
        Node("symbol", <<Atom("power:+5V"),
            Node("power", <<>>),
            Node("symbol", <<Atom(<<"+5V", "1", "1">>),
                PinNode("power_in", "0", "0", "0", "0", "+5V", "1")>>)>>),
        Node("symbol", <<Atom("Amp:Dual"),
            PinNode("power_in", "0", "5.08", "270", "2.54", "V+", "8"),
            Node("symbol", <<Atom(<<"Dual", "1", "1">>),
                PinNode("output", "5.08", "0", "180", "2.54", "OUT", "1"),
                PinNode("input", "-5.08", "2.54", "0", "2.54", "IN", "2")>>),
            Node("symbol", <<Atom(<<"Dual", "2", "1">>),
                PinNode("output", "5.08", "0", "180", "2.54", "OUT", "7"),
                PinNode("input", "-5.08", "2.54", "0", "2.54", "IN", "6")>>),
            Node("symbol", <<Atom(<<"Dual", "x", "1">>),
                PinNode("passive", "0", "-5.08", "90", "2.54", "NC", "9")>>),
            Node("symbol", <<Atom(<<"DualExtra">>),
                PinNode("passive", "2.54", "-5.08", "90", "2.54", "", "10")>>)>>),
        Node("symbol", <<Atom("Nest:Deep"),
            PinNode("passive", "0", "5.08", "270", "2.54", "TOP", "1"),
            Node("symbol", <<Atom(<<"Deep", "2", "1">>),
                PinNode("passive", "5.08", "0", "180", "2.54", "A", "2"),
                Node("symbol", <<Atom(<<"Deep", "1", "1">>),
                    PinNode("passive", "-5.08", "2.54", "0", "2.54", "B", "3")>>),
                Node("symbol", <<Atom(<<"Deep", "1">>),
                    PinNode("passive", "0", "-5.08", "90", "2.54", "C", "4")>>),
                PinNode("passive", "2.54", "-5.08", "90", "2.54", "D", "5")>>),
            Node("symbol", <<Atom(<<"My", "Part", "1", "1">>),
                PinNode("passive", "-2.54", "0", "0", "2.54", "E", "6")>>)>>),
        Node("symbol", <<Atom("Test:Bare"),
            Node("pin", <<>>),
            Node("pin", <<Atom("passive"), Atom("line"),
                          Node("at", <<Atom("2.54")>>),
                          Node("length", <<>>),
                          Node("name", <<>>),
                          Node("number", <<>>)>>),
            Node("pin", <<Atom("passive"), Atom("line"),
                          Node("at", <<Atom("0"), Atom("2.54")>>),
                          Node("number", <<Atom("3")>>)>>)>>)
    >>)

(***************************************************************************)
(* Schematic inputs.  Coordinates are integers in micrometres (the source  *)
(* holds millimetres as floats); rotations are multiples of 90 degrees.    *)
(***************************************************************************)
MaxSymbols == 2
MaxWires == 2
MaxLabels == 2

\* result["lib_symbols"] of the inputs
LibSymbols == lib_symbols_of(List(<<Atom("kicad_sch"), LibSymbolsNode>>))

Instance(lib_id, reference, value, x, y, rot) ==
    [lib_id |-> lib_id, reference |-> reference, value |-> value,
     x |-> x, y |-> y, rot |-> rot,
     mirror_x |-> FALSE, mirror_y |-> FALSE, unit |-> 1]

Wire(sx, sy, ex, ey) == [start |-> <<sx, sy>>, end |-> <<ex, ey>>]

Label(name, x, y) == [name |-> name, type |-> "local", position |-> <<x, y>>]

InstanceCands ==
    << Instance("Device:R", "R1", "10k", 0, 0, 0),
       Instance("Device:R", "R2", "10k", 5080, 0, 180),
       Instance("Device:R", "R1", "10k", 7460, 0, 0),
       Instance("power:+5V", "#PWR01", "+5V", 0, 0, 0),
       Instance("power:+5V", "#PWR02", "+5V", 10000, 0, 0) >>

WireCands ==
    << Wire(0, 0, -2540, 0),
       Wire(2540, 0, 5080, 0),
       Wire(0, 0, 10000, 0),
       Wire(5080, 0, -2536, 0) >>

LabelCands ==
    << Label("VCC", -2540, 0),
       Label("GND", 5080, 0),
       Label("CLK", 0, 0),
       Label("VCC", 10004, 0) >>

JunctionCands == << <<2540, 0>> >>

\* the candidates at the chosen indices, in index order
RECURSIVE Picked(_, _, _)
Picked(cands, idx, n) ==
    IF n > Len(cands) THEN <<>>
    ELSE (IF n \in idx THEN <<cands[n]>> ELSE <<>>) \o Picked(cands, idx, n + 1)

SubSeqsUpTo(cands, max) ==
    {Picked(cands, idx, 1) : idx \in {s \in SUBSET (1..Len(cands)) : Cardinality(s) <= max}}

\* the candidates in any order, without repetition
OrderedUpTo(cands, max) ==
    {[n \in 1..Len(f) |-> cands[f[n]]] :
        f \in {g \in UNION {[1..m -> 1..Len(cands)] : m \in 0..max} :
                 \A a, b \in 1..Len(g) : a # b => g[a] # g[b]}}

Schematics ==
    [instances : SubSeqsUpTo(InstanceCands, MaxSymbols),
     wires : OrderedUpTo(WireCands, MaxWires),
     labels : SubSeqsUpTo(LabelCands, MaxLabels),
     junctions : SubSeqsUpTo(JunctionCands, 1),
     no_connects : {<<>>}]

(***************************************************************************)
(* parse_kicad_sch: the fields read from the content tree                  *)
(***************************************************************************)
\* properties.get(key, default): properties[prop_node[1]] = prop_node[2] for
\* every property node of three elements or more, a later one replacing an
\* earlier one of the same name
property_value(sym_node, key, default) ==
    LET props == SelectSeq(_find_nodes(sym_node, "property"),
                           LAMBDA prop_node : Len(prop_node.v) >= 3)
        mine == SelectSeq(props, LAMBDA prop_node : El(prop_node, 1) = Atom(key))
    IN IF mine = <<>> THEN default ELSE El(mine[Len(mine)], 2).v

\* for m in mirror_node[1:]: if m == axis: flag = True
mirror_flag(sym_node, axis) ==
    LET mirror_node == _find_node(sym_node, "mirror")
    IN /\ mirror_node.k # "none"
       /\ \E j \in 2..Len(mirror_node.v) : mirror_node.v[j] = Atom(axis)

\* the fields of one placed symbol node
placed_symbol(sym_node) ==
    LET at_node == _find_node(sym_node, "at")
        xyz == IF at_node.k # "none" THEN _get_xyz(at_node) ELSE <<0, 0, 0>>
        unit_node == _find_node(sym_node, "unit")
    IN [lib_id |-> str_field(sym_node, "lib_id", ""),
        reference |-> property_value(sym_node, "Reference", ""),
        value |-> property_value(sym_node, "Value", ""),
        footprint |-> property_value(sym_node, "Footprint", ""),
        x |-> xyz[1], y |-> xyz[2], rot |-> xyz[3],
        mirror_x |-> mirror_flag(sym_node, "x"),
        mirror_y |-> mirror_flag(sym_node, "y"),
        unit |-> IF unit_node.k # "none" /\ Len(unit_node.v) > 1
                 THEN int_of(El(unit_node, 1)) ELSE 1,
        uuid |-> str_field(sym_node, "uuid", "")]

\* the exception reading one placed symbol node raises: float() of the at
\* node's elements, then int() of the unit
placed_symbol_exc(sym_node) ==
    LET at_node == _find_node(sym_node, "at")
        unit_node == _find_node(sym_node, "unit")
    IN FirstExc(<<IF at_node.k # "none" THEN _get_xyz_exc(at_node) ELSE "none",
                  IF unit_node.k # "none" /\ Len(unit_node.v) > 1
                  THEN int_exc(El(unit_node, 1)) ELSE "none">>)

\* for sym_node in _find_nodes(sexpr, 'symbol'): if len(sym_node) < 2: continue
placed_symbol_nodes(content) ==
    SelectSeq(_find_nodes(content, "symbol"), LAMBDA sym_node : Len(sym_node.v) >= 2)

\* the points of one wire node: [] when it has no pts child
wire_points(wire_node) ==
    LET pts_node == _find_node(wire_node, "pts")
        xy_nodes == _find_nodes(pts_node, "xy")
    IN [n \in 1..Len(xy_nodes) |-> _get_xy(xy_nodes[n])]

wire_points_exc(wire_node) ==
    LET xy_nodes == _find_nodes(_find_node(wire_node, "pts"), "xy")
    IN FirstExc([n \in 1..Len(xy_nodes) |-> _get_xy_exc(xy_nodes[n])])

\* the wires with a wire of a single point collected as well
wires_with_single_points(content) ==
    LET wire_nodes == SelectSeq(_find_nodes(content, "wire"),
                                LAMBDA wire_node : Len(wire_points(wire_node)) >= 1)
    IN [n \in 1..Len(wire_nodes) |->
          [start |-> wire_points(wire_nodes[n])[1],
           end |-> wire_points(wire_nodes[n])[Min(2, Len(wire_points(wire_nodes[n])))]]]

\* result["wires"]: the first two points of every wire that has two
wires_of(content) ==
    LET wire_nodes == SelectSeq(_find_nodes(content, "wire"),
                                LAMBDA wire_node : Len(wire_points(wire_node)) >= 2)
    IN [n \in 1..Len(wire_nodes) |->
          [start |-> wire_points(wire_nodes[n])[1], end |-> wire_points(wire_nodes[n])[2]]]

\* label_type.replace('_label', '').replace('label', 'local')
label_type_name(label_type) ==
    CASE label_type = "label" -> "local"
      [] label_type = "global_label" -> "global"
      [] label_type = "hierarchical_label" -> "hierarchical"

labels_of_type(content, label_type) ==
    LET label_nodes == SelectSeq(_find_nodes(content, label_type),
                                 LAMBDA label_node : Len(label_node.v) >= 2)
    IN [n \in 1..Len(label_nodes) |->
          LET at_node == _find_node(label_nodes[n], "at")
          IN [name |-> El(label_nodes[n], 1).v,
              type |-> label_type_name(label_type),
              position |-> IF at_node.k # "none" THEN _get_xy(at_node) ELSE <<0, 0>>]]

\* result["labels"]: local, then global, then hierarchical labels
labels_of(content) ==
    labels_of_type(content, "label") \o labels_of_type(content, "global_label")
    \o labels_of_type(content, "hierarchical_label")

\* the at nodes of the children with a tag that have one
at_nodes_of(content, tag) ==
    LET with_at == SelectSeq(_find_nodes(content, tag),
                             LAMBDA node : _find_node(node, "at").k # "none")
    IN [n \in 1..Len(with_at) |-> _find_node(with_at[n], "at")]

\* result["junctions"]
junctions_of(content) ==
    [n \in 1..Len(at_nodes_of(content, "junction")) |->
        _get_xy(at_nodes_of(content, "junction")[n])]

\* result["no_connects"]
no_connects_of(content) ==
    [n \in 1..Len(at_nodes_of(content, "no_connect")) |->
        _get_xy(at_nodes_of(content, "no_connect")[n])]

\* the schematic read from the content, before the pins are placed
schematic_of(content) ==
    [instances |-> [n \in 1..Len(placed_symbol_nodes(content)) |->
                       placed_symbol(placed_symbol_nodes(content)[n])],
     wires |-> wires_of(content),
     labels |-> labels_of(content),
     junctions |-> junctions_of(content),
     no_connects |-> no_connects_of(content)]

\* the first exception parse_kicad_sch raises while reading the content
schematic_exc(content) ==
    LET sym_nodes == placed_symbol_nodes(content)
        wire_nodes == _find_nodes(content, "wire")
        label_ats == at_nodes_of(content, "label") \o at_nodes_of(content, "global_label")
                     \o at_nodes_of(content, "hierarchical_label")
        junction_ats == at_nodes_of(content, "junction")
        no_connect_ats == at_nodes_of(content, "no_connect")
    IN FirstExc([n \in 1..Len(sym_nodes) |-> placed_symbol_exc(sym_nodes[n])]
                \o [n \in 1..Len(wire_nodes) |-> wire_points_exc(wire_nodes[n])]
                \o [n \in 1..Len(label_ats) |-> _get_xy_exc(label_ats[n])]
                \o [n \in 1..Len(junction_ats) |-> _get_xy_exc(junction_ats[n])]
                \o [n \in 1..Len(no_connect_ats) |-> _get_xy_exc(no_connect_ats[n])])

(***************************************************************************)
(* parse_kicad_pcb: the fields read from the content tree                  *)
(***************************************************************************)
\* the strings of node[1:]
rest_strings(node) == [n \in 1..(Len(node.v) - 1) |-> node.v[n + 1].v]

\* result["layers"]: the (ordinal name type) triples under the layers node
pcb_layers_of(content) ==
    LET layers_node == _find_node(content, "layers")
        triples == SelectSeq(IF layers_node.k = "none" THEN <<>> ELSE Tail(layers_node.v),
                             LAMBDA item : item.k = "list" /\ Len(item.v) >= 3)
    IN [n \in 1..Len(triples) |->
          [ordinal |-> IF El(triples[n], 0).v \in DOMAIN IntTable
                       THEN IntTable[El(triples[n], 0).v] ELSE 0,
           name |-> El(triples[n], 1).v,
           type |-> El(triples[n], 2).v]]

\* the net nodes that enter result["nets"]: three elements or more and a
\* number int() accepts (ValueError is caught and the node skipped)
net_table_nodes(content) ==
    SelectSeq(_find_nodes(content, "net"),
              LAMBDA net_node : Len(net_node.v) >= 3 /\ int_exc(El(net_node, 1)) = "none")

nets_with_pad_nets(content) ==
    LET nodes == net_table_nodes(content)
                 \o net_table_nodes(_find_node(_find_node(content, "footprint"), "pad"))
        last(num) == nodes[CHOOSE n \in 1..Len(nodes) :
                              /\ int_of(El(nodes[n], 1)) = num
                              /\ \A m \in (n + 1)..Len(nodes) : int_of(El(nodes[m], 1)) # num]
    IN [num \in {int_of(El(nodes[n], 1)) : n \in 1..Len(nodes)} |-> El(last(num), 2).v]

\* result["nets"][net_num] = net_name: a later node replaces an earlier one
\* with the same number
pcb_nets_of(content) ==
    LET nodes == net_table_nodes(content)
        last(num) == nodes[CHOOSE n \in 1..Len(nodes) :
                              /\ int_of(El(nodes[n], 1)) = num
                              /\ \A m \in (n + 1)..Len(nodes) : int_of(El(nodes[m], 1)) # num]
    IN [num \in {int_of(El(nodes[n], 1)) : n \in 1..Len(nodes)} |-> El(last(num), 2).v]

\* int() of a list raises TypeError, which the except clause does not catch
pcb_nets_exc(content) ==
    LET nodes == SelectSeq(_find_nodes(content, "net"), LAMBDA net_node : Len(net_node.v) >= 3)
    IN FirstExc([n \in 1..Len(nodes) |->
                    IF int_exc(El(nodes[n], 1)) = "TypeError" THEN "TypeError" ELSE "none"])

\* the clearances of the setup node that are present: <<key, value>> pairs
SetupKeys == <<"pad_to_mask_clearance", "pad_to_paste_clearance">>

pcb_setup_of(content) ==
    LET setup_node == _find_node(content, "setup")
        present == SelectSeq(SetupKeys,
                             LAMBDA key : _get_value(setup_node, key, NoValue).k = "atom"
                                          /\ _get_value(setup_node, key, NoValue).v # "")
    IN [n \in 1..Len(present) |->
          <<present[n], float_of(_get_value(setup_node, present[n], NoValue))>>]

pcb_setup_exc(content) ==
    LET setup_node == _find_node(content, "setup")
        val(key) == _get_value(setup_node, key, NoValue)
    IN FirstExc([n \in 1..Len(SetupKeys) |->
                    IF val(SetupKeys[n]).k = "none" THEN "none"
                    ELSE IF val(SetupKeys[n]).k = "list"
                         THEN (IF val(SetupKeys[n]).v = <<>> THEN "none" ELSE "TypeError")
                    ELSE IF val(SetupKeys[n]).v = "" THEN "none"
                    ELSE float_exc(val(SetupKeys[n]))])

\* one pad node of three elements or more
pad_of(pad_node) ==
    LET pad_at == _find_node(pad_node, "at")
        pad_size_node == _find_node(pad_node, "size")
        pad_drill_node == _find_node(pad_node, "drill")
        pad_net_node == _find_node(pad_node, "net")
        pad_layers_node == _find_node(pad_node, "layers")
        has(node, n) == node.k # "none" /\ Len(node.v) > n
    IN [number |-> El(pad_node, 1).v,
        type |-> El(pad_node, 2).v,
        shape |-> IF Len(pad_node.v) > 3 THEN El(pad_node, 3).v ELSE "",
        at |-> IF pad_at.k # "none" THEN _get_xyz(pad_at) ELSE <<0, 0, 0>>,
        size |-> IF pad_size_node.k # "none" THEN _get_xy(pad_size_node) ELSE <<0, 0>>,
        drill |-> IF has(pad_drill_node, 1) THEN float_of(El(pad_drill_node, 1)) ELSE 0,
        net |-> <<IF has(pad_net_node, 1) THEN int_of(El(pad_net_node, 1)) ELSE 0,
                  IF has(pad_net_node, 2) THEN El(pad_net_node, 2).v ELSE "">>,
        layers |-> IF pad_layers_node.k # "none" THEN rest_strings(pad_layers_node) ELSE <<>>]

pad_exc(pad_node) ==
    LET pad_at == _find_node(pad_node, "at")
        pad_size_node == _find_node(pad_node, "size")
        pad_drill_node == _find_node(pad_node, "drill")
        pad_net_node == _find_node(pad_node, "net")
        has(node, n) == node.k # "none" /\ Len(node.v) > n
    IN FirstExc(<<IF pad_at.k # "none" THEN _get_xyz_exc(pad_at) ELSE "none",
                  IF pad_size_node.k # "none" THEN _get_xy_exc(pad_size_node) ELSE "none",
                  IF has(pad_drill_node, 1) THEN float_exc(El(pad_drill_node, 1)) ELSE "none",
                  IF has(pad_net_node, 1) THEN int_exc(El(pad_net_node, 1)) ELSE "none">>)

\* for pad_node in _find_nodes(fp_node, 'pad'): if len(pad_node) < 3: continue
pad_nodes_of(fp_node) ==
    SelectSeq(_find_nodes(fp_node, "pad"), LAMBDA pad_node : Len(pad_node.v) >= 3)

\* "reference = reference or fp_text_node[2]" over the fp_text nodes of a
\* kind: the property when it is not empty, else the first text that is not
fp_text_fallback(fp_node, from_property, kind) ==
    LET texts == SelectSeq(_find_nodes(fp_node, "fp_text"),
                           LAMBDA node : /\ Len(node.v) >= 3
                                         /\ El(node, 1) = Atom(kind)
                                         /\ El(node, 2).v # "")
    IN IF from_property # "" THEN from_property
       ELSE IF texts = <<>> THEN "" ELSE El(texts[1], 2).v

\* one footprint node of two elements or more
footprint_of(fp_node) ==
    LET at_node == _find_node(fp_node, "at")
        pad_nodes == pad_nodes_of(fp_node)
    IN [reference |-> fp_text_fallback(fp_node, property_value(fp_node, "Reference", ""),
                                       "reference"),
        value |-> fp_text_fallback(fp_node, property_value(fp_node, "Value", ""), "value"),
        library |-> El(fp_node, 1).v,
        layer |-> _get_value(fp_node, "layer", Atom("F.Cu")).v,
        at |-> IF at_node.k # "none" THEN _get_xyz(at_node) ELSE <<0, 0, 0>>,
        pads |-> [n \in 1..Len(pad_nodes) |-> pad_of(pad_nodes[n])]]

footprint_exc(fp_node) ==
    LET at_node == _find_node(fp_node, "at")
        pad_nodes == pad_nodes_of(fp_node)
    IN FirstExc(<<IF at_node.k # "none" THEN _get_xyz_exc(at_node) ELSE "none">>
                \o [n \in 1..Len(pad_nodes) |-> pad_exc(pad_nodes[n])])

footprint_nodes(content) ==
    SelectSeq(_find_nodes(content, "footprint"), LAMBDA fp_node : Len(fp_node.v) >= 2)

\* result["footprints"]
pcb_footprints_of(content) ==
    [n \in 1..Len(footprint_nodes(content)) |-> footprint_of(footprint_nodes(content)[n])]

pcb_footprints_exc(content) ==
    FirstExc([n \in 1..Len(footprint_nodes(content)) |->
                 footprint_exc(footprint_nodes(content)[n])])

\* a segment is recorded when it has a start and an end node
segment_nodes(content) ==
    SelectSeq(_find_nodes(content, "segment"),
              LAMBDA seg_node : /\ _find_node(seg_node, "start").k # "none"
                                /\ _find_node(seg_node, "end").k # "none")

segment_of(seg_node) ==
    [start |-> _get_xy(_find_node(seg_node, "start")),
     end |-> _get_xy(_find_node(seg_node, "end")),
     width |-> float_of(_get_value(seg_node, "width", Atom("0"))),
     layer |-> _get_value(seg_node, "layer", Atom("")).v,
     net |-> int_of(_get_value(seg_node, "net", Atom("0")))]

segment_exc(seg_node) ==
    FirstExc(<<_get_xy_exc(_find_node(seg_node, "start")),
               _get_xy_exc(_find_node(seg_node, "end")),
               float_exc(_get_value(seg_node, "width", Atom("0"))),
               int_exc(_get_value(seg_node, "net", Atom("0")))>>)

\* result["segments"]
pcb_segments_of(content) ==
    [n \in 1..Len(segment_nodes(content)) |-> segment_of(segment_nodes(content)[n])]

pcb_segments_exc(content) ==
    FirstExc([n \in 1..Len(segment_nodes(content)) |-> segment_exc(segment_nodes(content)[n])])

\* a via is recorded when it has an at node
via_nodes(content) ==
    SelectSeq(_find_nodes(content, "via"),
              LAMBDA via_node : _find_node(via_node, "at").k # "none")

via_of(via_node) ==
    LET layers_node == _find_node(via_node, "layers")
    IN [at |-> _get_xy(_find_node(via_node, "at")),
        size |-> float_of(_get_value(via_node, "size", Atom("0"))),
        drill |-> float_of(_get_value(via_node, "drill", Atom("0"))),
        net |-> int_of(_get_value(via_node, "net", Atom("0"))),
        layers |-> IF layers_node.k # "none" THEN rest_strings(layers_node) ELSE <<>>]

via_exc(via_node) ==
    FirstExc(<<_get_xy_exc(_find_node(via_node, "at")),
               float_exc(_get_value(via_node, "size", Atom("0"))),
               float_exc(_get_value(via_node, "drill", Atom("0"))),
               int_exc(_get_value(via_node, "net", Atom("0")))>>)

\* result["vias"]
pcb_vias_of(content) ==
    [n \in 1..Len(via_nodes(content)) |-> via_of(via_nodes(content)[n])]

pcb_vias_exc(content) ==
    FirstExc([n \in 1..Len(via_nodes(content)) |-> via_exc(via_nodes(content)[n])])

zone_of(zone_node) ==
    LET net_node == _find_node(zone_node, "net")
        layer == _get_value(zone_node, "layer", Atom("")).v
        layers_node == _find_node(zone_node, "layers")
    IN [net |-> IF net_node.k # "none" /\ Len(net_node.v) > 1
                THEN int_of(El(net_node, 1)) ELSE 0,
        net_name |-> str_field(zone_node, "net_name", ""),
        layers |-> IF layers_node.k # "none" THEN rest_strings(layers_node)
                   ELSE IF layer # "" THEN <<layer>> ELSE <<>>]

zone_exc(zone_node) ==
    LET net_node == _find_node(zone_node, "net")
    IN IF net_node.k # "none" /\ Len(net_node.v) > 1
       THEN int_exc(El(net_node, 1)) ELSE "none"

\* result["zones"]
pcb_zones_of(content) ==
    [n \in 1..Len(_find_nodes(content, "zone")) |-> zone_of(_find_nodes(content, "zone")[n])]

pcb_zones_exc(content) ==
    FirstExc([n \in 1..Len(_find_nodes(content, "zone")) |->
                 zone_exc(_find_nodes(content, "zone")[n])])

(***************************************************************************)
(* Contents handed to the assemblers: one placed symbol node, or one       *)
(* footprint with one pad, whose optional children are each absent, too    *)
(* short or complete                                                       *)
(***************************************************************************)
LibIdChoices ==
    {<<>>, <<Node("lib_id", <<>>)>>}
    \cup {<<Node("lib_id", <<Atom(id)>>)>> :
             id \in {"Device:R", "power:+5V", "Amp:Dual", "Nest:Deep", "Test:Bare",
                    "Missing:X"}}

AtChoices ==
    {<<>>, <<Node("at", <<>>)>>, <<Node("at", <<Atom("5.08")>>)>>,
     <<Node("at", <<Atom("5.08"), Atom("2.54")>>)>>}
    \cup {<<Node("at", <<Atom("5.08"), Atom("2.54"), Atom(r)>>)>> :
             r \in {"0", "90", "180", "270"}}

MirrorChoices ==
    {<<>>, <<Node("mirror", <<>>)>>, <<Node("mirror", <<Atom("x")>>)>>,
     <<Node("mirror", <<Atom("y")>>)>>, <<Node("mirror", <<Atom("x"), Atom("y")>>)>>}

UnitChoices ==
    {<<>>, <<Node("unit", <<>>)>>, <<Node("unit", <<Atom("1")>>)>>,
     <<Node("unit", <<Atom("2")>>)>>}

\* the uuid and the properties of the placed symbol: absent, short, complete
SymbolRestChoices ==
    << <<>>,
       <<Node("uuid", <<>>), Node("property", <<>>),
         Node("property", <<Atom("Reference")>>)>>,
       <<Node("uuid", <<Atom("u1")>>),
         Node("property", <<Atom("Reference"), Atom("U1")>>),
         Node("property", <<Atom("Value"), Atom("10k")>>),
         Node("property", <<Atom("Footprint"), Atom("R_0603")>>)>>,
       <<Node("uuid", <<Atom("u2")>>),
         Node("property", <<Atom("Reference"), Atom("U0")>>),
         Node("property", <<Atom("Reference"), Atom("U2")>>)>> >>

XY(x, y) == Node("xy", <<Atom(x), Atom(y)>>)

\* the wires, labels and junctions beside the placed symbol
TopRestChoices ==
    << <<>>,
       <<Node("wire", <<>>),
         Node("wire", <<Node("pts", <<XY("0", "0")>>)>>),
         Node("wire", <<Node("pts", <<XY("2.54", "0"), Node("xy", <<Atom("5.08")>>)>>)>>),
         Node("label", <<>>),
         Node("label", <<Atom("VCC")>>),
         Node("junction", <<>>),
         Node("junction", <<Node("at", <<>>)>>),
         Node("no_connect", <<>>),
         Node("no_connect", <<Node("at", <<>>)>>)>>,
       <<Node("wire", <<Node("pts", <<XY("0", "0"), XY("5.08", "2.54")>>)>>),
         Node("label", <<Atom("VCC"), Node("at", <<Atom("5.08"), Atom("2.54")>>)>>),
         Node("junction", <<Node("at", <<Atom("0"), Atom("0")>>)>>)>>,
       <<Node("wire", <<Node("pts", <<XY("0", "0"), XY("5.08", "2.54"), XY("2.54", "0")>>)>>),
         Node("global_label", <<Atom("GND"), Node("at", <<Atom("0"), Atom("0")>>)>>),
         Node("hierarchical_label", <<Atom("CLK")>>),
         Node("no_connect", <<Node("at", <<Atom("5.08"), Atom("2.54")>>)>>)>> >>

SchContents ==
    {List(<<Atom("kicad_sch"), LibSymbolsNode,
            Node("symbol", c[1] \o c[2] \o c[3] \o c[4] \o SymbolRestChoices[c[5]])>>
          \o TopRestChoices[c[5]]) :
        c \in LibIdChoices \X AtChoices \X MirrorChoices \X UnitChoices
              \X (1..Len(SymbolRestChoices))}

NetTableChoices ==
    << <<>>,
       <<Node("net", <<>>), Node("net", <<Atom("2")>>),
         Node("net", <<Atom("GND"), Atom("GND")>>),
         Node("net", <<Atom("3"), Atom("GND")>>)>>,
       <<Node("net", <<Atom("0"), Atom("")>>), Node("net", <<Atom("1"), Atom("VCC")>>),
         Node("net", <<Atom("3"), Atom("GND")>>)>> >>

PadAtChoices == {<<>>, <<Node("at", <<Atom("1"), Atom("2"), Atom("90")>>)>>}

PadSizeChoices ==
    {<<>>, <<Node("size", <<>>)>>, <<Node("size", <<Atom("0.8")>>)>>,
     <<Node("size", <<Atom("0.8"), Atom("0.4")>>)>>}

PadDrillChoices == {<<>>, <<Node("drill", <<>>)>>, <<Node("drill", <<Atom("0.4")>>)>>}

PadNetChoices ==
    {<<>>, <<Node("net", <<>>)>>, <<Node("net", <<Atom("3")>>)>>,
     <<Node("net", <<Atom("3"), Atom("GND")>>)>>,
     <<Node("net", <<Atom("1"), Atom("VCC")>>)>>}

PadLayersChoices ==
    {<<>>, <<Node("layers", <<>>)>>, <<Node("layers", <<Atom("F.Cu"), Atom("F.Mask")>>)>>}

PadNodes ==
    {Node("pad", <<Atom("1"), Atom("smd"), Atom("rect")>>
                 \o c[1] \o c[2] \o c[3] \o c[4] \o c[5]) :
        c \in PadAtChoices \X PadSizeChoices \X PadDrillChoices \X PadNetChoices
              \X PadLayersChoices}

\* the rest of the footprint: complete, legacy fp_text and nothing
FootprintRestChoices ==
    << <<Node("layer", <<Atom("B.Cu")>>), Node("at", <<Atom("10"), Atom("10"), Atom("90")>>),
         Node("property", <<Atom("Reference"), Atom("R1")>>),
         Node("property", <<Atom("Value"), Atom("10k")>>)>>,
       <<Node("layer", <<>>), Node("at", <<>>),
         Node("fp_text", <<Atom("reference"), Atom("R2")>>),
         Node("fp_text", <<Atom("value"), Atom("1k")>>),
         Node("pad", <<Atom("9")>>)>>,
       <<>> >>

\* segments, vias and zones: complete, with short children, without children
TrackChoices ==
    << <<Node("segment", <<Node("start", <<Atom("0"), Atom("0")>>),
                           Node("end", <<Atom("10"), Atom("0")>>),
                           Node("width", <<Atom("0.25")>>),
                           Node("layer", <<Atom("F.Cu")>>),
                           Node("net", <<Atom("3")>>)>>),
         Node("via", <<Node("at", <<Atom("10"), Atom("0")>>),
                       Node("size", <<Atom("0.8")>>),
                       Node("drill", <<Atom("0.4")>>),
                       Node("layers", <<Atom("F.Cu"), Atom("B.Cu")>>),
                       Node("net", <<Atom("1")>>)>>),
         Node("zone", <<Node("net", <<Atom("3")>>),
                        Node("net_name", <<Atom("GND")>>),
                        Node("layer", <<Atom("F.Cu")>>)>>),
         Node("zone", <<Node("net", <<Atom("1"), Atom("VCC")>>),
                        Node("layers", <<Atom("F.Cu"), Atom("B.Cu")>>)>>)>>,
       <<Node("segment", <<Node("start", <<Atom("10")>>), Node("end", <<>>),
                           Node("width", <<>>), Node("layer", <<>>), Node("net", <<>>)>>),
         Node("segment", <<Node("start", <<Atom("0"), Atom("0")>>)>>),
         Node("via", <<Node("at", <<>>), Node("size", <<>>), Node("drill", <<>>),
                       Node("layers", <<>>), Node("net", <<>>)>>),
         Node("via", <<Node("size", <<Atom("0.8")>>)>>),
         Node("zone", <<Node("net", <<>>), Node("net_name", <<>>), Node("layer", <<>>)>>)>>,
       <<Node("segment", <<Node("start", <<Atom("0"), Atom("0")>>),
                           Node("end", <<Atom("10"), Atom("0")>>)>>),
         Node("via", <<Node("at", <<Atom("10"), Atom("0")>>)>>),
         Node("zone", <<>>)>> >>

PcbHead ==
    <<Atom("kicad_pcb"),
      Node("layers", <<List(<<Atom("0"), Atom("F.Cu"), Atom("signal")>>),
                       List(<<Atom("x"), Atom("B.Cu"), Atom("signal")>>),
                       List(<<Atom("2")>>)>>),
      Node("setup", <<Node("pad_to_mask_clearance", <<Atom("0.25")>>),
                      Node("pad_to_paste_clearance", <<>>)>>)>>

PcbContents ==
    {List(PcbHead \o NetTableChoices[c[1]]
          \o <<Node("footprint", <<Atom("R_0603")>> \o FootprintRestChoices[c[2]] \o <<c[3]>>)>>
          \o TrackChoices[c[4]]) :
        c \in (1..Len(NetTableChoices)) \X (1..Len(FootprintRestChoices)) \X PadNodes
              \X (1..Len(TrackChoices))}

(***************************************************************************)
(* Geometry                                                                *)
(***************************************************************************)
\* Python's round() of v / d: to the nearest integer, ties to the even one.
\* No input coordinate ends in 5 micrometres, so no tie arises and the float
\* product pos * 100 rounds as the exact quotient does.
RoundHalfEven(v, d) ==
    LET q == v \div d
        r == v % d
    IN IF 2 * r < d THEN q
       ELSE IF 2 * r > d THEN q + 1
       ELSE IF q % 2 = 0 THEN q ELSE q + 1

\* (round(pos[0] * 100), round(pos[1] * 100)): millimetres to hundredths,
\* that is micrometres divided by ten
_round_coord(pos) == <<RoundHalfEven(pos[1], 10), RoundHalfEven(pos[2], 10)>>

Cos90(a) == CASE a = 0 -> 1 [] a = 90 -> 0 [] a = 180 -> (0 - 1) [] a = 270 -> 0
Sin90(a) == CASE a = 0 -> 0 [] a = 90 -> 1 [] a = 180 -> 0 [] a = 270 -> (0 - 1)

\* cos and sin are exact at multiples of 90 degrees here; the floats of the
\* source differ from them by less than 1e-15, which _round_coord absorbs
_rotate_point(x, y, angle_deg) ==
    IF angle_deg = 0 THEN <<x, y>>
    ELSE LET cos_a == Cos90(angle_deg % 360)
             sin_a == Sin90(angle_deg % 360)
         IN <<x * cos_a - y * sin_a, x * sin_a + y * cos_a>>

endpoint_ignoring_rotation(pin) == <<pin.x + pin.length, pin.y>>

_compute_pin_endpoint(pin) ==
    LET d == _rotate_point(pin.length, 0, 0 - pin.rotation)
    IN <<pin.x + d[1], pin.y + d[2]>>

absolute_position_mirrored_last(symbol_x, symbol_y, symbol_rot, mirror_x, mirror_y, pin_endpoint_x, pin_endpoint_y) ==
    LET r == _rotate_point(pin_endpoint_x, pin_endpoint_y, 0 - symbol_rot)
    IN <<IF mirror_x THEN 0 - (symbol_x + r[1]) ELSE symbol_x + r[1],
         IF mirror_y THEN 0 - (symbol_y + r[2]) ELSE symbol_y + r[2]>>

_compute_absolute_pin_position(symbol_x, symbol_y, symbol_rot, mirror_x, mirror_y, pin_endpoint_x, pin_endpoint_y) ==
    LET px == IF mirror_x THEN 0 - pin_endpoint_x ELSE pin_endpoint_x
        py == IF mirror_y THEN 0 - pin_endpoint_y ELSE pin_endpoint_y
        r == _rotate_point(px, py, 0 - symbol_rot)
    IN <<symbol_x + r[1], symbol_y + r[2]>>

(***************************************************************************)
(* parse_kicad_sch: placed symbols                                         *)
(***************************************************************************)
\* result["lib_symbols"].get(lib_id, {})
lib_sym_of(lib_id) ==
    IF lib_id \in DOMAIN LibSymbols
    THEN LibSymbols[lib_id]
    ELSE [pins |-> <<>>, is_power |-> FALSE]

unit_equal(pin, unit) == pin.unit = unit

\* "if pin_unit != 0 and pin_unit != unit: continue"
unit_selected(pin, unit) == ~(pin.unit # 0 /\ pin.unit # unit)

\* abs_pins of one instance
abs_pins_of(inst) ==
    LET lib_pins == lib_sym_of(inst.lib_id).pins
        kept == SelectSeq(lib_pins, LAMBDA pin : unit_selected(pin, inst.unit))
    IN [n \in 1..Len(kept) |->
          LET endpoint == _compute_pin_endpoint(kept[n])
          IN [name |-> kept[n].name,
              number |-> kept[n].number,
              electrical_type |-> kept[n].electrical_type,
              position |-> _compute_absolute_pin_position(
                               inst.x, inst.y, inst.rot, inst.mirror_x, inst.mirror_y,
                               endpoint[1], endpoint[2])]]

\* symbol_data; inst_no tells the placed instances apart (the source keeps
\* no such field: it is carried along to follow each pin into the nets)
symbol_data_of(inst, inst_no) ==
    [lib_id |-> inst.lib_id,
     reference |-> inst.reference,
     value |-> inst.value,
     pins |-> abs_pins_of(inst),
     is_power |-> lib_sym_of(inst.lib_id).is_power,
     inst_no |-> inst_no]

all_symbol_data(instances) ==
    [n \in 1..Len(instances) |-> symbol_data_of(instances[n], n)]

(***************************************************************************)
(* _build_net_connectivity                                                 *)
(***************************************************************************)
\* an item of point_items; src is <<inst_no, pin index>> for a pin (see
\* symbol_data_of) and <<0, 0>> otherwise
Item(type, net_name, reference, pin_number, pin_name, src) ==
    [type |-> type, net_name |-> net_name, reference |-> reference,
     pin_number |-> pin_number, pin_name |-> pin_name, src |-> src]

wire_item == Item("wire", "", "", "", "", <<0, 0>>)
junction_item == Item("junction", "", "", "", "", <<0, 0>>)
label_item(label) == Item("label", label.name, "", "", "", <<0, 0>>)
power_item(sym) == Item("power", sym.value, sym.reference, "", "", <<0, 0>>)
pin_item(sym, n) ==
    Item("pin", "", sym.reference, sym.pins[n].number, sym.pins[n].name,
         <<sym.inst_no, n>>)

KeyIndex(pts, key) ==
    IF \E n \in 1..Len(pts) : pts[n].key = key
    THEN CHOOSE n \in 1..Len(pts) : pts[n].key = key
    ELSE 0

\* _add_point(pos, item); pts is point_items, e is <<pos, item>>
_add_point(pts, e) ==
    LET key == _round_coord(e[1])
        n == KeyIndex(pts, key)
    IN IF n = 0
       THEN Append(pts, [key |-> key, items |-> <<e[2]>>])
       ELSE [pts EXCEPT ![n].items = Append(@, e[2])]

\* for wire in schematic["wires"]: the start, then the end
RECURSIVE wire_entries(_)
wire_entries(wires) ==
    IF wires = <<>> THEN <<>>
    ELSE << <<Head(wires).start, wire_item>>, <<Head(wires).end, wire_item>> >>
         \o wire_entries(Tail(wires))

\* for sym in schematic["symbols"]: for pin in sym["pins"]
RECURSIVE symbol_pin_entries(_)
symbol_pin_entries(syms) ==
    IF syms = <<>> THEN <<>>
    ELSE [n \in 1..Len(Head(syms).pins) |->
             <<Head(syms).pins[n].position, pin_item(Head(syms), n)>>]
         \o symbol_pin_entries(Tail(syms))

\* for sym in schematic["power_symbols"]: for pin in sym["pins"]
RECURSIVE power_pin_entries(_)
power_pin_entries(syms) ==
    IF syms = <<>> THEN <<>>
    ELSE [n \in 1..Len(Head(syms).pins) |->
             <<Head(syms).pins[n].position, power_item(Head(syms))>>]
         \o power_pin_entries(Tail(syms))

label_entries(labels) ==
    [n \in 1..Len(labels) |-> <<labels[n].position, label_item(labels[n])>>]

junction_entries(juncs) ==
    [n \in 1..Len(juncs) |-> <<juncs[n], junction_item>>]

\* point_items after the five loops: wires, symbol pins, power pins, labels,
\* junctions
RECURSIVE add_points(_, _)
add_points(pts, entries) ==
    IF entries = <<>> THEN pts
    ELSE add_points(_add_point(pts, Head(entries)), Tail(entries))

\* the points, were the junctions entered before the wires
collect_points_junctions_first(schematic, syms, psyms) ==
    add_points(<<>>,
               junction_entries(schematic.junctions)
               \o wire_entries(schematic.wires)
               \o symbol_pin_entries(syms)
               \o power_pin_entries(psyms)
               \o label_entries(schematic.labels))

collect_points(schematic, syms, psyms) ==
    add_points(<<>>,
               wire_entries(schematic.wires)
               \o symbol_pin_entries(syms)
               \o power_pin_entries(psyms)
               \o label_entries(schematic.labels)
               \o junction_entries(schematic.junctions))

\* while parent[p] != p: parent[p] = parent[parent[p]]; p = parent[p]
RECURSIVE find_loop(_, _)
find_loop(par, p) ==
    IF par[p] = p THEN [root |-> p, parent |-> par]
    ELSE LET halved == [par EXCEPT ![p] = par[par[p]]]
         IN find_loop(halved, halved[p])

\* _find(p): the root of p and the parent map it leaves behind
_find(par, p) ==
    find_loop(IF p \in DOMAIN par THEN par ELSE (p :> p) @@ par, p)

union_without_find(par, a, b) ==
    LET pa == IF a \in DOMAIN par THEN par ELSE (a :> a) @@ par
        pb == IF b \in DOMAIN pa THEN pa ELSE (b :> b) @@ pa
    IN IF a # b THEN [pb EXCEPT ![a] = b] ELSE pb

\* the union that hangs the key a itself, not its root, under the root of b
union_of_key(par, a, b) ==
    LET fa == _find(par, a)
        fb == _find(fa.parent, b)
    IN IF fa.root # fb.root
       THEN [fb.parent EXCEPT ![a] = fb.root]
       ELSE fb.parent

\* _union(a, b)
_union(par, a, b) ==
    LET fa == _find(par, a)
        fb == _find(fa.parent, b)
    IN IF fa.root # fb.root
       THEN [fb.parent EXCEPT ![fa.root] = fb.root]
       ELSE fb.parent

\* for pt in all_points: _find(pt)
RECURSIVE ensure_points(_, _)
ensure_points(par, pts) ==
    IF pts = <<>> THEN par
    ELSE ensure_points(_find(par, Head(pts).key).parent, Tail(pts))

insert_under_point_and_root(grps, pt, root, items) ==
    LET under(gs, r) ==
            IF KeyIndex(gs, r) = 0
            THEN Append(gs, [key |-> r, items |-> items])
            ELSE [gs EXCEPT ![KeyIndex(gs, r)].items = @ \o items]
    IN IF pt = root THEN under(grps, root) ELSE under(under(grps, root), pt)

\* if root not in groups: groups[root] = []; groups[root].extend(items)
group_insert(grps, pt, root, items) ==
    LET n == KeyIndex(grps, root)
    IN IF n = 0
       THEN Append(grps, [key |-> root, items |-> items])
       ELSE [grps EXCEPT ![n].items = @ \o items]

\* for pt, items in point_items.items(): root = _find(pt); ...
RECURSIVE group_loop(_, _)
group_loop(acc, pts) ==
    IF pts = <<>> THEN acc
    ELSE LET pt == Head(pts)
             f == _find(acc.parent, pt.key)
         IN group_loop([parent |-> f.parent,
                        groups |-> group_insert(acc.groups, pt.key, f.root, pt.items)],
                       Tail(pts))

group_points(par, pts) == group_loop([parent |-> par, groups |-> <<>>], pts)

NoName == "<None>"

name_bearing(item) == item.type \in {"label", "power"}

found_last_name(items) ==
    LET named == SelectSeq(items, name_bearing)
    IN IF named = <<>> THEN NoName ELSE named[Len(named)].net_name

\* the first label or power item's net_name, None when there is none
found_net_name(items) ==
    LET named == SelectSeq(items, name_bearing)
    IN IF named = <<>> THEN NoName ELSE named[1].net_name

unnamed_net_name(n) == "_unnamed_net_" \o ToString(n)

pin_ref_name_always(item) ==
    item.reference \o ":" \o item.pin_number \o "(" \o item.pin_name \o ")"

\* f"{reference}:{pin_number}", then f"({pin_name})" when the name is not empty
pin_ref(item) ==
    item.reference \o ":" \o item.pin_number
    \o (IF item.pin_name # "" THEN "(" \o item.pin_name \o ")" ELSE "")

\* pin_refs of a group; each reference keeps the src of its pin
pin_refs_of(items) ==
    LET pins == SelectSeq(items, LAMBDA item : item.type = "pin")
    IN [n \in 1..Len(pins) |-> [ref |-> pin_ref(pins[n]), src |-> pins[n].src]]

NameIndex(nts, name) ==
    IF \E n \in 1..Len(nts) : nts[n].name = name
    THEN CHOOSE n \in 1..Len(nts) : nts[n].name = name
    ELSE 0

add_net_even_if_empty(nts, net_name, pin_refs) ==
    IF NameIndex(nts, net_name) # 0
    THEN [nts EXCEPT ![NameIndex(nts, net_name)].pins = @ \o pin_refs]
    ELSE Append(nts, [name |-> net_name, pins |-> pin_refs])

add_net_overwriting(nts, net_name, pin_refs) ==
    IF pin_refs = <<>> THEN nts
    ELSE IF NameIndex(nts, net_name) # 0
    THEN [nts EXCEPT ![NameIndex(nts, net_name)].pins = pin_refs]
    ELSE Append(nts, [name |-> net_name, pins |-> pin_refs])

add_net_unless_unnamed(nts, net_name, pin_refs) ==
    IF pin_refs = <<>> \/ net_name \in {unnamed_net_name(n) : n \in 1..99} THEN nts
    ELSE IF NameIndex(nts, net_name) # 0
    THEN [nts EXCEPT ![NameIndex(nts, net_name)].pins = @ \o pin_refs]
    ELSE Append(nts, [name |-> net_name, pins |-> pin_refs])

\* if pin_refs: extend nets[net_name] when present, else nets[net_name] = pin_refs
add_net(nts, net_name, pin_refs) ==
    IF pin_refs = <<>> THEN nts
    ELSE IF NameIndex(nts, net_name) # 0
    THEN [nts EXCEPT ![NameIndex(nts, net_name)].pins = @ \o pin_refs]
    ELSE Append(nts, [name |-> net_name, pins |-> pin_refs])

\* the iteration, did it count only the unnamed groups that hold a pin
name_group_counting_reported(acc, grp) ==
    LET found == found_net_name(grp.items)
        pin_refs == pin_refs_of(grp.items)
        count == IF found = NoName /\ pin_refs # <<>>
                 THEN acc.unnamed_count + 1 ELSE acc.unnamed_count
        net_name == IF found = NoName THEN unnamed_net_name(count) ELSE found
    IN [nets |-> add_net(acc.nets, net_name, pin_refs),
        unnamed_count |-> count,
        net_names |-> Append(acc.net_names, net_name)]

\* one iteration of "for _root, items in groups.items()"
name_group(acc, grp) ==
    LET found == found_net_name(grp.items)
        count == IF found = NoName THEN acc.unnamed_count + 1 ELSE acc.unnamed_count
        net_name == IF found = NoName THEN unnamed_net_name(count) ELSE found
    IN [nets |-> add_net(acc.nets, net_name, pin_refs_of(grp.items)),
        unnamed_count |-> count,
        net_names |-> Append(acc.net_names, net_name)]

RECURSIVE name_loop(_, _)
name_loop(acc, grps) ==
    IF grps = <<>> THEN acc ELSE name_loop(name_group(acc, Head(grps)), Tail(grps))

\* nets = {}; unnamed_count = 0; for _root, items in groups.items()
name_groups(grps) ==
    name_loop([nets |-> <<>>, unnamed_count |-> 0, net_names |-> <<>>], grps)

(***************************************************************************)
(* parse_kicad_sch as a state machine                                      *)
(***************************************************************************)
TokIdle ==
    /\ text = <<>>
    /\ i = 0
    /\ tokens = <<>>
    /\ stack = <<<<>>>>
    /\ raised = FALSE
    /\ pc = "idle"
    /\ result = NoValue

InitNet ==
    /\ sch \in Schematics
    /\ symbols = <<>>
    /\ power_symbols = <<>>
    /\ point_items = <<>>
    /\ parent = EmptyMap
    /\ wi = 0
    /\ groups = <<>>
    /\ net_names = <<>>
    /\ unnamed_count = 0
    /\ nets = <<>>
    /\ phase = "symbols"
    /\ TokIdle
    /\ AsmIdle
    /\ AppIdle

\* the loop over the placed symbol nodes: each is filed under power_symbols
\* or symbols
ParseSymbols ==
    /\ phase = "symbols"
    /\ LET data == all_symbol_data(sch.instances)
       IN /\ symbols' = SelectSeq(data, LAMBDA d : ~d.is_power)
          /\ power_symbols' = SelectSeq(data, LAMBDA d : d.is_power)
    /\ phase' = "points"
    /\ UNCHANGED <<sch, point_items, parent, wi, groups, net_names, unnamed_count, nets>>
    /\ UNCHANGED nonNetVars

\* _build_net_connectivity up to the union loop
AddPoints ==
    /\ phase = "points"
    /\ point_items' = collect_points(sch, symbols, power_symbols)
    /\ wi' = 1
    /\ phase' = "union"
    /\ UNCHANGED <<sch, symbols, power_symbols, parent, groups, net_names, unnamed_count, nets>>
    /\ UNCHANGED nonNetVars

\* one iteration of "for wire in schematic['wires']: _union(a, b)"
UnionWire ==
    /\ phase = "union"
    /\ wi <= Len(sch.wires)
    /\ parent' = _union(parent, _round_coord(sch.wires[wi].start),
                        _round_coord(sch.wires[wi].end))
    /\ wi' = wi + 1
    /\ UNCHANGED <<sch, symbols, power_symbols, point_items, groups, net_names,
                   unnamed_count, nets, phase>>
    /\ UNCHANGED nonNetVars

\* every point entered in parent, then grouped under its root
GroupPoints ==
    /\ phase = "union"
    /\ wi > Len(sch.wires)
    /\ LET g == group_points(ensure_points(parent, point_items), point_items)
       IN /\ parent' = g.parent
          /\ groups' = g.groups
    /\ phase' = "name"
    /\ UNCHANGED <<sch, symbols, power_symbols, point_items, wi, net_names,
                   unnamed_count, nets>>
    /\ UNCHANGED nonNetVars

\* the naming loop and the return of nets
NameNets ==
    /\ phase = "name"
    /\ LET r == name_groups(groups)
       IN /\ nets' = r.nets
          /\ unnamed_count' = r.unnamed_count
          /\ net_names' = r.net_names
    /\ phase' = "done"
    /\ UNCHANGED <<sch, symbols, power_symbols, point_items, parent, wi, groups>>
    /\ UNCHANGED nonNetVars

NextNet == ParseSymbols \/ AddPoints \/ UnionWire \/ GroupPoints \/ NameNets

SpecNet == InitNet /\ [][NextNet]_vars

(***************************************************************************)
(* The union-find of _build_net_connectivity on wires alone: the wires of  *)
(* the schematic in any order, a wire more than once, a wire both ways     *)
(* round and a wire whose two ends round to one key                        *)
(***************************************************************************)
MaxUnions == 3

UnionWireCands ==
    << Wire(0, 0, 2540, 0),
       Wire(2540, 0, 0, 0),
       Wire(2540, 0, 5080, 0),
       Wire(5080, 0, 0, 2540),
       Wire(0, 0, 0, 2540),
       Wire(0, 0, 4, 0),
       Wire(5080, 0, 0, 0) >>

UnionSchematics ==
    [instances : {<<>>},
     wires : UNION {[1..m -> {UnionWireCands[n] : n \in 1..Len(UnionWireCands)}] :
                       m \in 0..MaxUnions},
     labels : {<<>>},
     junctions : {<<>>},
     no_connects : {<<>>}]

InitUnion ==
    /\ sch \in UnionSchematics
    /\ symbols = <<>>
    /\ power_symbols = <<>>
    /\ point_items = <<>>
    /\ parent = EmptyMap
    /\ wi = 0
    /\ groups = <<>>
    /\ net_names = <<>>
    /\ unnamed_count = 0
    /\ nets = <<>>
    /\ phase = "symbols"
    /\ TokIdle
    /\ AsmIdle
    /\ AppIdle

SpecUnion == InitUnion /\ [][NextNet]_vars

(***************************************************************************)
(* parse_kicad_sch on two resistors, R1 with pin tips (0, 0) and           *)
(* (2.54, 0) and R3 with pin tips (0, 5.08) and (2.54, 5.08), wired in     *)
(* any order: wires between the tips by way of the free point (0, 2.54),   *)
(* a wire that touches nothing, labels on the tips and on the free point,  *)
(* a label that reads like a synthesized name, junctions and no-connect    *)
(* markers on a point in use and on a free point                           *)
(***************************************************************************)
OrderInstances ==
    << Instance("Device:R", "R1", "10k", 0, 0, 0),
       Instance("Device:R", "R3", "10k", 0, 5080, 0) >>

OrderWireCands ==
    << Wire(0, 0, 0, 2540),
       Wire(0, 2540, 0, 5080),
       Wire(2540, 0, 2540, 5080),
       Wire(10000, 0, 10000, 2540) >>

OrderLabelChoices ==
    { <<>>,
      <<Label("GND", 0, 2540)>>,
      <<Label("VCC", 0, 0), Label("GND", 0, 5080)>>,
      <<Label("VCC", 0, 0), Label("GND", 0, 2540), Label("GND", 2540, 5080)>>,
      <<Label("_unnamed_net_1", 2540, 5080)>> }

OrderSchematics ==
    [instances : {OrderInstances},
     wires : OrderedUpTo(OrderWireCands, MaxWires),
     labels : OrderLabelChoices,
     junctions : {<<>>, << <<0, 2540>> >>, << <<5080, 5080>>, <<2540, 0>> >>},
     no_connects : {<<>>, << <<2540, 0>>, <<7620, 7620>> >>}]

InitOrder ==
    /\ sch \in OrderSchematics
    /\ symbols = <<>>
    /\ power_symbols = <<>>
    /\ point_items = <<>>
    /\ parent = EmptyMap
    /\ wi = 0
    /\ groups = <<>>
    /\ net_names = <<>>
    /\ unnamed_count = 0
    /\ nets = <<>>
    /\ phase = "symbols"
    /\ TokIdle
    /\ AsmIdle
    /\ AppIdle

SpecOrder == InitOrder /\ [][NextNet]_vars

(***************************************************************************)
(* parse_kicad_sch and parse_kicad_pcb from the content tree               *)
(***************************************************************************)
\* nothing of the nets has been computed yet
NetFresh ==
    /\ sch = [instances |-> <<>>, wires |-> <<>>, labels |-> <<>>, junctions |-> <<>>,
              no_connects |-> <<>>]
    /\ symbols = <<>>
    /\ power_symbols = <<>>
    /\ point_items = <<>>
    /\ parent = EmptyMap
    /\ wi = 0
    /\ groups = <<>>
    /\ net_names = <<>>
    /\ unnamed_count = 0
    /\ nets = <<>>

PcbFresh ==
    pcb = [layers |-> <<>>, nets |-> <<>>, setup |-> <<>>, footprints |-> <<>>,
           segments |-> <<>>, vias |-> <<>>, zones |-> <<>>]

InitSch ==
    /\ sexpr \in SchContents
    /\ phase = "read_sch"
    /\ failure = "none"
    /\ NetFresh
    /\ PcbFresh
    /\ TokIdle
    /\ AppIdle

InitPcb ==
    /\ sexpr \in PcbContents
    /\ phase = "pcb_tables"
    /\ failure = "none"
    /\ NetFresh
    /\ PcbFresh
    /\ TokIdle
    /\ AppIdle

\* the loops of parse_kicad_sch that read the content: placed symbols,
\* wires, labels, junctions
ReadSchematic ==
    /\ phase = "read_sch"
    /\ failure' = schematic_exc(sexpr)
    /\ phase' = IF schematic_exc(sexpr) = "none" THEN "symbols" ELSE "raised"
    /\ sch' = IF schematic_exc(sexpr) = "none" THEN schematic_of(sexpr) ELSE sch
    /\ UNCHANGED <<symbols, power_symbols, point_items, parent, wi, groups, net_names,
                   unnamed_count, nets, sexpr, pcb>>
    /\ UNCHANGED <<tokVars, appVars>>

\* one section of parse_kicad_pcb: the result gains the section unless
\* reading it raises
PcbStep(from, to, exc, new_pcb) ==
    /\ phase = from
    /\ failure' = exc
    /\ phase' = IF exc = "none" THEN to ELSE "raised"
    /\ pcb' = IF exc = "none" THEN new_pcb ELSE pcb
    /\ UNCHANGED <<netVarsButPhase, sexpr>>
    /\ UNCHANGED <<tokVars, appVars>>

ParsePcbTables ==
    PcbStep("pcb_tables", "pcb_footprints",
            FirstExc(<<pcb_nets_exc(sexpr), pcb_setup_exc(sexpr)>>),
            [pcb EXCEPT !.layers = pcb_layers_of(sexpr),
                        !.nets = pcb_nets_of(sexpr),
                        !.setup = pcb_setup_of(sexpr)])

ParseFootprints ==
    PcbStep("pcb_footprints", "pcb_segments", pcb_footprints_exc(sexpr),
            [pcb EXCEPT !.footprints = pcb_footprints_of(sexpr)])

ParseSegments ==
    PcbStep("pcb_segments", "pcb_vias", pcb_segments_exc(sexpr),
            [pcb EXCEPT !.segments = pcb_segments_of(sexpr)])

ParseVias ==
    PcbStep("pcb_vias", "pcb_zones", pcb_vias_exc(sexpr),
            [pcb EXCEPT !.vias = pcb_vias_of(sexpr)])

ParseZones ==
    PcbStep("pcb_zones", "pcb_done", pcb_zones_exc(sexpr),
            [pcb EXCEPT !.zones = pcb_zones_of(sexpr)])

NextSch == ReadSchematic \/ NextNet

NextPcb == ParsePcbTables \/ ParseFootprints \/ ParseSegments \/ ParseVias \/ ParseZones

SpecSch == InitSch /\ [][NextSch]_vars

SpecPcb == InitPcb /\ [][NextPcb]_vars

InitParse == InitSch \/ InitPcb

NextParse == NextSch \/ NextPcb

SpecParse == InitParse /\ [][NextParse]_vars

(***************************************************************************)
(* The report builders: _build_report of analyzer.py (Wokwi) and           *)
(* _build_summary / full_kicad_analysis of kicad_analyzer.py (KiCad).  A   *)
(* fault is the pair of its title and its severity.                        *)
(***************************************************************************)
MaxFaults == 2

Fault(title, severity) == [title |-> title, severity |-> severity]

\* the faults an analysis may hand to the builder: rule findings and the
\* findings parsed from the AI reply, whose titles and severities are free
FaultPalette ==
    {Fault(t, v) : t \in {"A", "B"}, v \in {"error", "warning", "info"}}
    \cup {Fault("B", "note")}

FaultLists == UNION {[1..m -> FaultPalette] : m \in 0..MaxFaults}

\* sum(1 for f in faults if f.get("severity") == severity)
count_severity(fault_list, severity) ==
    Cardinality({n \in 1..Len(fault_list) : fault_list[n].severity = severity})

\* the loop of _build_report: a fault is kept when its title is not in
\* seen_titles
RECURSIVE unique_loop(_, _, _)
unique_loop(seen_titles, unique_faults, rest) ==
    IF rest = <<>> THEN unique_faults
    ELSE IF Head(rest).title \notin seen_titles
    THEN unique_loop(seen_titles \cup {Head(rest).title}, Append(unique_faults, Head(rest)),
                     Tail(rest))
    ELSE unique_loop(seen_titles, unique_faults, Tail(rest))

\* analyzer._build_report; the summary's total is its key "total_faults"
_build_report(fault_list) ==
    LET unique_faults == unique_loop({}, <<>>, fault_list)
    IN [faults |-> unique_faults,
        summary |-> [total |-> Len(unique_faults),
                     errors |-> count_severity(unique_faults, "error"),
                     warnings |-> count_severity(unique_faults, "warning"),
                     infos |-> count_severity(unique_faults, "info")]]

\* kicad_analyzer._build_summary: every severity that is neither "error" nor
\* "warning" counts as an info
_build_summary(fault_list) ==
    [total |-> Len(fault_list),
     errors |-> count_severity(fault_list, "error"),
     warnings |-> count_severity(fault_list, "warning"),
     infos |-> Cardinality({n \in 1..Len(fault_list) :
                               fault_list[n].severity \notin {"error", "warning"}})]

\* the report of full_kicad_analysis for the faults gathered in all_faults
full_kicad_report(all_faults) ==
    [faults |-> all_faults, summary |-> _build_summary(all_faults)]

InitReport ==
    /\ phase \in {"wokwi_analysis", "kicad_sch_analysis"}
    /\ NetFresh
    /\ TokIdle
    /\ AsmIdle
    /\ AppIdle

ReportStep(from, to, new_faults, new_report) ==
    /\ phase = from
    /\ phase' = to
    /\ faults' = new_faults
    /\ report' = new_report
    /\ UNCHANGED <<netVarsButPhase, tokVars, asmVars, req, status, calls, checked>>

\* analyzer.analyze_*: all_faults = rule_faults + ai_faults
WokwiAnalysis ==
    \E fs \in FaultLists : ReportStep("wokwi_analysis", "wokwi_report", fs, report)

\* return _build_report(diagram, sketch_code, all_faults)
BuildReport ==
    ReportStep("wokwi_report", "reported", faults, _build_report(faults))

\* all_faults.extend(sch_report.get("faults", []))
AnalyzeKicadSchematic ==
    \E fs \in FaultLists :
        ReportStep("kicad_sch_analysis", "kicad_pcb_analysis", faults \o fs, report)

\* all_faults.extend(pcb_report.get("faults", []))
AnalyzeKicadPcb ==
    \E fs \in FaultLists :
        ReportStep("kicad_pcb_analysis", "kicad_report", faults \o fs, report)

\* report = {"faults": all_faults, "summary": _build_summary(all_faults)}
FullKicadReport ==
    ReportStep("kicad_report", "reported", faults, full_kicad_report(faults))

NextReport ==
    WokwiAnalysis \/ BuildReport \/ AnalyzeKicadSchematic \/ AnalyzeKicadPcb
    \/ FullKicadReport

SpecReport == InitReport /\ [][NextReport]_vars

(***************************************************************************)
(* The rule checks of kicad_analyzer.py.  A title is kept as the tuple of  *)
(* the parts its f-string joins.                                           *)
(***************************************************************************)
\* the dict parse_kicad_sch returns, as the checks receive it
schematic_result ==
    [symbols |-> symbols, power_symbols |-> power_symbols, wires |-> sch.wires,
     labels |-> sch.labels, junctions |-> sch.junctions,
     no_connects |-> sch.no_connects, nets |-> nets]

RECURSIVE Flatten(_)
Flatten(xss) == IF xss = <<>> THEN <<>> ELSE Head(xss) \o Flatten(Tail(xss))

RECURSIVE Ascending(_)
Ascending(S) ==
    IF S = {} THEN <<>>
    ELSE LET m == CHOOSE x \in S : \A y \in S : x <= y
         IN <<m>> \o Ascending(S \ {m})

Abs(x) == IF x < 0 THEN 0 - x ELSE x

\* abs(round(wx * 100) - px) <= tolerance and abs(round(wy * 100) - py) <= tolerance
within_tolerance(a, pos) ==
    /\ Abs(_round_coord(a)[1] - _round_coord(pos)[1]) <= 2
    /\ Abs(_round_coord(a)[2] - _round_coord(pos)[2]) <= 2

\* a wire end, a label or a pin of a power symbol lies at the point
_is_point_connected(pos, schematic) ==
    \/ \E n \in 1..Len(schematic.wires) :
          \/ within_tolerance(schematic.wires[n].start, pos)
          \/ within_tolerance(schematic.wires[n].end, pos)
    \/ \E n \in 1..Len(schematic.labels) :
          within_tolerance(schematic.labels[n].position, pos)
    \/ \E s \in 1..Len(schematic.power_symbols) :
          \E n \in 1..Len(schematic.power_symbols[s].pins) :
             within_tolerance(schematic.power_symbols[s].pins[n].position, pos)

\* the fault of one pin of one symbol, none when the pin sits on a no-connect
\* marker or is connected
unconnected_pin_faults(sym, pin, schematic) ==
    IF \/ \E n \in 1..Len(schematic.no_connects) :
             _round_coord(schematic.no_connects[n]) = _round_coord(pin.position)
       \/ _is_point_connected(pin.position, schematic)
    THEN <<>>
    ELSE <<Fault(<<"Unconnected pin", pin.number, pin.name, "on", sym.reference>>,
                 IF pin.electrical_type \in {"power_in", "input"}
                 THEN "error" ELSE "warning")>>

_check_unconnected_pins(schematic) ==
    Flatten([s \in 1..Len(schematic.symbols) |->
               Flatten([n \in 1..Len(schematic.symbols[s].pins) |->
                          unconnected_pin_faults(schematic.symbols[s],
                                                 schematic.symbols[s].pins[n],
                                                 schematic)])])

\* ref.startswith("#"), for the references of the inputs
starts_with_hash(ref) == ref \in {"#PWR01", "#PWR02"}

\* ref_count, then one fault for each reference counted more than once, in
\* the order the references first appear
_check_duplicate_references(schematic) ==
    LET all == [n \in 1..Len(schematic.symbols) |-> schematic.symbols[n].reference]
        refs == SelectSeq(all, LAMBDA ref : ref # "" /\ ~starts_with_hash(ref))
        count(ref) == Cardinality({n \in 1..Len(refs) : refs[n] = ref})
        firsts == SelectSeq([n \in 1..Len(refs) |-> n],
                            LAMBDA n : /\ \A m \in 1..(n - 1) : refs[m] # refs[n]
                                       /\ count(refs[n]) > 1)
    IN [k \in 1..Len(firsts) |->
          Fault(<<"Duplicate reference designator", refs[firsts[k]],
                  count(refs[firsts[k]])>>, "error")]

\* lib_id.split(":")[-1] if ":" in lib_id else "", for the library ids of
\* the inputs
lib_id_name(lib_id) ==
    CASE lib_id = "Device:R" -> "R"
      [] lib_id = "power:+5V" -> "+5V"
      [] lib_id = "Amp:Dual" -> "Dual"
      [] lib_id = "Nest:Deep" -> "Deep"
      [] lib_id = "Test:Bare" -> "Bare"
      [] lib_id = "Missing:X" -> "X"
      [] OTHER -> ""

\* the library ids of the inputs for which match_component finds an entry
\* whose checks hold "value_not_empty": the resistor
ValueNotEmptyLibIds == {"Device:R"}

\* no library id of the inputs contains "Connector", "TestPoint" or
\* "MountingHole"
_check_missing_values(schematic) ==
    LET missing(sym) ==
            /\ sym.reference # "" /\ ~starts_with_hash(sym.reference)
            /\ sym.value \in {"", "~", "?", "Value", lib_id_name(sym.lib_id)}
            /\ sym.lib_id \in ValueNotEmptyLibIds
        found == SelectSeq(schematic.symbols, missing)
    IN [n \in 1..Len(found) |->
          Fault(<<"Missing value for", found[n].reference, found[n].lib_id>>, "warning")]

\* the keys of POWER_SYMBOLS
POWER_SYMBOLS ==
    {"+5V", "+3V3", "+3.3V", "+12V", "+24V", "+1V8", "+2V5", "+9V", "VCC", "VDD",
     "VBUS", "VBAT", "GND", "GNDREF", "GNDD", "GNDA", "Earth", "GNDPWR", "VSS"}

\* "PWR_FLAG" in val: no value of the inputs holds it
has_pwr_flag(val) == val \in {"PWR_FLAG"}

\* flagged_nets gains the first net name for a flag symbol that has a pin
flagged_nets_of(schematic) ==
    IF /\ \E s \in 1..Len(schematic.power_symbols) :
             /\ has_pwr_flag(schematic.power_symbols[s].value)
             /\ schematic.power_symbols[s].pins # <<>>
       /\ schematic.nets # <<>>
    THEN {schematic.nets[1].name}
    ELSE {}

_check_power_flag(schematic) ==
    LET rails == SelectSeq(schematic.nets,
                           LAMBDA net : /\ net.name \in POWER_SYMBOLS
                                        /\ net.name \notin flagged_nets_of(schematic)
                                        /\ net.name \in {"VCC", "VDD", "+5V", "+3V3",
                                                         "+3.3V", "+12V"})
    IN [n \in 1..Len(rails) |->
          Fault(<<"Power net may need PWR_FLAG", rails[n].name>>, "warning")]

\* net_name.startswith("_unnamed_"): among the names of the inputs, the
\* names the net builder makes up
starts_with_unnamed(net_name) ==
    net_name \in {unnamed_net_name(n) : n \in 1..99}

_check_single_pin_nets(schematic) ==
    LET single == SelectSeq(schematic.nets,
                            LAMBDA net : /\ ~starts_with_unnamed(net.name)
                                         /\ Len(net.pins) = 1)
    IN [n \in 1..Len(single) |->
          Fault(<<"Single-pin net", single[n].name>>, "warning")]

\* _check_voltage_mismatch, _check_decoupling_capacitors, _check_led_resistors,
\* _check_pin_function_mismatch, _check_polarity and _check_uart_crossover
\* report on the parts match_component knows with an operating voltage, a
\* decoupling need, an LED, pin functions, a polarity or a UART: of the
\* library ids of the inputs it knows the resistor alone, and none of the
\* six reports on it
component_knowledge_faults(schematic) == <<>>

\* analyze_schematic_rules: the checks in the order the code calls them
analyze_schematic_rules(schematic) ==
    _check_unconnected_pins(schematic)
    \o _check_duplicate_references(schematic)
    \o _check_missing_values(schematic)
    \o _check_power_flag(schematic)
    \o _check_single_pin_nets(schematic)
    \o component_knowledge_faults(schematic)

\* the pads of every footprint
all_pads(board) ==
    Flatten([n \in 1..Len(board.footprints) |-> board.footprints[n].pads])

\* routed_nets, pad_count_per_net; the net tables of the inputs list their
\* numbers in ascending order
_check_unrouted_nets(board) ==
    LET routed_nets ==
            {board.segments[n].net : n \in 1..Len(board.segments)}
            \cup {board.vias[n].net : n \in 1..Len(board.vias)}
            \cup {board.zones[n].net : n \in 1..Len(board.zones)}
        pad_count(net_num) ==
            Cardinality({n \in 1..Len(all_pads(board)) : all_pads(board)[n].net[1] = net_num})
        unrouted == SelectSeq(Ascending(DOMAIN board.nets),
                              LAMBDA net_num : /\ net_num # 0 /\ board.nets[net_num] # ""
                                               /\ net_num \notin routed_nets
                                               /\ pad_count(net_num) >= 2)
    IN [n \in 1..Len(unrouted) |->
          Fault(<<"Unrouted net", board.nets[unrouted[n]], pad_count(unrouted[n])>>,
                "error")]

\* DEFAULT_MFG_CONSTRAINTS, in micrometres
min_trace_width == 150
min_clearance == 150
min_via_drill == 300
min_via_annular_ring == 130
min_power_width == 500

_check_trace_width(board) ==
    LET thin_count == Cardinality({n \in 1..Len(board.segments) :
                                      /\ 0 < board.segments[n].width
                                      /\ board.segments[n].width < min_trace_width})
    IN IF thin_count > 0
       THEN <<Fault(<<"trace segments below minimum width", thin_count>>, "warning")>>
       ELSE <<>>

\* annular_ring = (size - drill) / 2
_check_via_drill_size(board) ==
    LET small_drill_count ==
            Cardinality({n \in 1..Len(board.vias) :
                            /\ board.vias[n].drill > 0
                            /\ board.vias[n].drill < min_via_drill})
        small_annular_count ==
            Cardinality({n \in 1..Len(board.vias) :
                            /\ board.vias[n].drill > 0 /\ board.vias[n].size > 0
                            /\ board.vias[n].size - board.vias[n].drill
                                  < 2 * min_via_annular_ring})
    IN (IF small_drill_count > 0
        THEN <<Fault(<<"vias with drill size below minimum", small_drill_count>>,
                     "warning")>>
        ELSE <<>>)
       \o (IF small_annular_count > 0
           THEN <<Fault(<<"vias with small annular ring", small_annular_count>>,
                        "warning")>>
           ELSE <<>>)

\* dist - half_widths < min_clearance for the midpoints of two segments,
\* every length doubled and the distance squared
too_close(seg_a, seg_b) ==
    LET dx == (seg_a.start[1] + seg_a.end[1]) - (seg_b.start[1] + seg_b.end[1])
        dy == (seg_a.start[2] + seg_a.end[2]) - (seg_b.start[2] + seg_b.end[2])
        reach == 2 * min_clearance + seg_a.width + seg_b.width
    IN dx * dx + dy * dy < reach * reach

\* the pairs i < j < i + 50 of segments on one layer and different nets
_check_clearance_violations(board) ==
    LET violations ==
            Cardinality({p \in (1..Len(board.segments)) \X (1..Len(board.segments)) :
                            /\ p[1] < p[2] /\ p[2] < p[1] + 50
                            /\ board.segments[p[1]].net # board.segments[p[2]].net
                            /\ board.segments[p[1]].layer = board.segments[p[2]].layer
                            /\ too_close(board.segments[p[1]], board.segments[p[2]])})
    IN IF violations > 0
       THEN <<Fault(<<"Potential clearance violations detected", violations>>, "warning")>>
       ELSE <<>>

\* a name of the inputs that starts with "+" is a key of POWER_SYMBOLS
_check_power_traces(board) ==
    LET power_net_nums == {net_num \in DOMAIN board.nets :
                              board.nets[net_num] \in POWER_SYMBOLS \cup {"VCC", "VDD", "VBUS"}}
        thin_power_count ==
            Cardinality({n \in 1..Len(board.segments) :
                            /\ board.segments[n].net \in power_net_nums
                            /\ board.segments[n].width < min_power_width})
    IN IF thin_power_count > 0
       THEN <<Fault(<<"power trace segments narrower than", thin_power_count>>, "warning")>>
       ELSE <<>>

\* analyze_pcb_rules(pcb, None): the checks in the order the code calls them
analyze_pcb_rules(board) ==
    _check_unrouted_nets(board)
    \o _check_trace_width(board)
    \o _check_via_drill_size(board)
    \o _check_clearance_violations(board)
    \o _check_power_traces(board)

(***************************************************************************)
(* The rule checks as steps on a parsed model: each check runs once, in    *)
(* any order, and the report is built when all have run                    *)
(***************************************************************************)
NoConnectCands == << <<2540, 0>> >>

\* a wire that starts 0.01 mm beside the point (0, 0)
NearMissWire == Wire(10, 0, 0, 2540)

\* schematics for the checks: a reference used twice, a resistor beside a
\* power symbol, a lone resistor; no wire, a wire that ends on a pin tip, a
\* wire that ends 0.01 mm beside one
RuleSchematics ==
    [instances : {<<InstanceCands[1], InstanceCands[3]>>,
                  <<InstanceCands[1], InstanceCands[4]>>,
                  <<InstanceCands[2]>>},
     wires : {<<>>, <<WireCands[2]>>, <<NearMissWire>>},
     labels : {<<>>, <<LabelCands[1]>>, <<LabelCands[2]>>},
     junctions : {<<>>},
     no_connects : SubSeqsUpTo(NoConnectCands, 1)]

\* contents for the checks: the placed symbol at (5.08, 2.54), unmirrored
RuleSchContents ==
    {List(<<Atom("kicad_sch"), LibSymbolsNode,
            Node("symbol", c[1] \o <<Node("at", <<Atom("5.08"), Atom("2.54"), Atom(c[2])>>)>>
                           \o c[3] \o SymbolRestChoices[c[4]])>>
          \o TopRestChoices[c[4]]) :
        c \in LibIdChoices \X {"0", "90"} \X UnitChoices \X (1..Len(SymbolRestChoices))}

\* boards for the checks: the pad complete but for its net
RulePcbContents ==
    {List(PcbHead \o NetTableChoices[c[1]]
          \o <<Node("footprint", <<Atom("R_0603")>> \o FootprintRestChoices[c[2]]
                    \o <<Node("pad", <<Atom("1"), Atom("smd"), Atom("rect"),
                                       Node("size", <<Atom("0.8"), Atom("0.4")>>)>>
                                     \o c[3])>>)>>
          \o TrackChoices[c[4]]) :
        c \in (1..Len(NetTableChoices)) \X (1..Len(FootprintRestChoices)) \X PadNetChoices
              \X (1..Len(TrackChoices))}

InitRules ==
    \/ /\ sch \in RuleSchematics
       /\ symbols = <<>> /\ power_symbols = <<>> /\ point_items = <<>>
       /\ parent = EmptyMap /\ wi = 0 /\ groups = <<>> /\ net_names = <<>>
       /\ unnamed_count = 0 /\ nets = <<>>
       /\ phase = "symbols"
       /\ TokIdle /\ AsmIdle /\ AppIdle
    \/ /\ sexpr \in RuleSchContents
       /\ phase = "read_sch"
       /\ failure = "none"
       /\ NetFresh /\ PcbFresh /\ TokIdle /\ AppIdle
    \/ /\ sexpr \in RulePcbContents
       /\ phase = "pcb_tables"
       /\ failure = "none"
       /\ NetFresh /\ PcbFresh /\ TokIdle /\ AppIdle

SchChecks ==
    {"unconnected_pins", "duplicate_references", "missing_values", "power_flag",
     "single_pin_nets", "component_knowledge"}

PcbChecks ==
    {"unrouted_nets", "trace_width", "via_drill_size", "clearance_violations",
     "power_traces"}

\* faults.extend(_check_...(model)) once the parser has returned: the check
\* receives the model, builds its own list and assigns to nothing else
RuleCheck(name, from, new_faults) ==
    /\ phase = from
    /\ name \notin checked
    /\ checked' = checked \cup {name}
    /\ faults' = faults \o new_faults
    /\ UNCHANGED <<netVars, tokVars, asmVars, req, report, status, calls>>

CheckUnconnectedPins ==
    RuleCheck("unconnected_pins", "done", _check_unconnected_pins(schematic_result))

CheckDuplicateReferences ==
    RuleCheck("duplicate_references", "done", _check_duplicate_references(schematic_result))

CheckMissingValues ==
    RuleCheck("missing_values", "done", _check_missing_values(schematic_result))

CheckPowerFlag ==
    RuleCheck("power_flag", "done", _check_power_flag(schematic_result))

\* a variant that drops the nets it reports: "del nets[net_name]"
CheckSinglePinNetsDroppingThem ==
    /\ phase = "done"
    /\ "single_pin_nets" \notin checked
    /\ checked' = checked \cup {"single_pin_nets"}
    /\ faults' = faults \o _check_single_pin_nets(schematic_result)
    /\ nets' = SelectSeq(nets, LAMBDA net : starts_with_unnamed(net.name) \/ Len(net.pins) # 1)
    /\ UNCHANGED <<sch, symbols, power_symbols, point_items, parent, wi, groups,
                   net_names, unnamed_count, phase>>
    /\ UNCHANGED <<tokVars, asmVars, req, report, status, calls>>

CheckSinglePinNets ==
    RuleCheck("single_pin_nets", "done", _check_single_pin_nets(schematic_result))

CheckComponentKnowledge ==
    RuleCheck("component_knowledge", "done", component_knowledge_faults(schematic_result))

CheckUnroutedNets == RuleCheck("unrouted_nets", "pcb_done", _check_unrouted_nets(pcb))

CheckTraceWidth == RuleCheck("trace_width", "pcb_done", _check_trace_width(pcb))

CheckViaDrillSize == RuleCheck("via_drill_size", "pcb_done", _check_via_drill_size(pcb))

CheckClearanceViolations ==
    RuleCheck("clearance_violations", "pcb_done", _check_clearance_violations(pcb))

CheckPowerTraces == RuleCheck("power_traces", "pcb_done", _check_power_traces(pcb))

\* analyze_kicad_schematic / analyze_kicad_pcb after the rule checks:
\* all_faults = rule_faults + ai_faults, then the report with its summary
AiFaultLists == {<<>>, <<Fault(<<"AI finding">>, "info")>>}

BuildRuleReport ==
    /\ \/ phase = "done" /\ checked = SchChecks
       \/ phase = "pcb_done" /\ checked = PcbChecks
    /\ \E ai_faults \in AiFaultLists :
          /\ faults' = faults \o ai_faults
          /\ report' = full_kicad_report(faults \o ai_faults)
    /\ phase' = "reported"
    /\ UNCHANGED <<netVarsButPhase, tokVars, asmVars, req, status, calls, checked>>

NextRules ==
    \/ NextParse
    \/ CheckUnconnectedPins \/ CheckDuplicateReferences \/ CheckMissingValues
    \/ CheckPowerFlag \/ CheckSinglePinNets \/ CheckComponentKnowledge
    \/ CheckUnroutedNets \/ CheckTraceWidth \/ CheckViaDrillSize
    \/ CheckClearanceViolations \/ CheckPowerTraces
    \/ BuildRuleReport

SpecRules == InitRules /\ [][NextRules]_vars

(***************************************************************************)
(* api_kicad_analyze of server.py: the project is loaded from a path or    *)
(* from pasted board content, analysed, saved to the history and returned; *)
(* an exception on the way is answered by one of the two except clauses    *)
(***************************************************************************)
\* the request and what the handler meets while serving it: where the
\* project comes from, what is found at the path, whether call_openai and
\* db.commit() go through
Requests ==
    {[source |-> c[1], path |-> c[2], ai |-> c[3], db |-> c[4]] :
        c \in ({"content", "neither"} \X {"none"} \X {"ok", "EnvironmentError"}
                  \X {"ok", "SQLAlchemyError"})
              \cup ({"path"} \X {"missing", "no_files", "unreadable", "undecodable", "ok"}
                      \X {"ok", "EnvironmentError"} \X {"ok", "SQLAlchemyError"})}

\* the board file or the pasted board: a pad whose drill is absent, round or
\* oval and whose net number is a number or a list
ApiContents ==
    {List(PcbHead \o NetTableChoices[c[1]]
          \o <<Node("footprint",
                    <<Atom("R_0603"),
                      Node("pad", <<Atom("1"), Atom("thru_hole"), Atom("oval")>>
                                  \o c[2] \o c[3])>>)>>
          \o TrackChoices[1]) :
        c \in {1, 3}
              \X {<<>>, <<Node("drill", <<Atom("0.4")>>)>>,
                  <<Node("drill", <<Atom("oval"), Atom("0.6"), Atom("1.2")>>)>>}
              \X {<<Node("net", <<Atom("3"), Atom("GND")>>)>>,
                  <<Node("net", <<List(<<Atom("3")>>), Atom("GND")>>)>>}}

InitApi ==
    /\ req \in Requests
    /\ sexpr \in ApiContents
    /\ phase = "request"
    /\ failure = "none"
    /\ faults = <<>>
    /\ report = NoReport
    /\ status = 0
    /\ calls = <<>>
    /\ checked = {}
    /\ NetFresh
    /\ PcbFresh
    /\ TokIdle

\* what load_from_path and the handler's else branch raise before any
\* content is parsed; read_text raises PermissionError for a file that may
\* not be read and UnicodeDecodeError for one that is not UTF-8
load_exc(request) ==
    CASE request.source = "neither" -> "ValueError"
      [] request.source = "path" /\ request.path \in {"missing", "no_files"} -> "ValueError"
      [] request.source = "path" /\ request.path = "unreadable" -> "PermissionError"
      [] request.source = "path" /\ request.path = "undecodable" -> "UnicodeDecodeError"
      [] OTHER -> "none"

\* load_from_path / load_from_content up to the call of parse_kicad_pcb
LoadProject ==
    /\ phase = "request"
    /\ failure' = load_exc(req)
    /\ phase' = IF load_exc(req) = "none" THEN "pcb_tables" ELSE "raised"
    /\ UNCHANGED <<netVarsButPhase, tokVars, sexpr, pcb, appVars>>

\* report = await full_kicad_analysis(project): the rule checks, the AI
\* call, whose exception is not caught, and the report
FullKicadAnalysis ==
    /\ phase = "pcb_done"
    /\ req.source # "none"
    /\ faults' = analyze_pcb_rules(pcb)
    /\ IF req.ai = "ok"
       THEN /\ report' = full_kicad_report(analyze_pcb_rules(pcb))
            /\ phase' = "analysed"
            /\ UNCHANGED failure
       ELSE /\ failure' = req.ai
            /\ phase' = "raised"
            /\ UNCHANGED report
    /\ UNCHANGED <<netVarsButPhase, tokVars, sexpr, pcb, req, status, calls, checked>>

\* the history entry is added and committed, then the report is returned
ReturnReport ==
    /\ phase = "analysed"
    /\ IF req.db = "ok"
       THEN /\ status' = 200
            /\ phase' = "responded"
            /\ UNCHANGED failure
       ELSE /\ failure' = req.db
            /\ phase' = "raised"
            /\ UNCHANGED status
    /\ UNCHANGED <<netVarsButPhase, tokVars, sexpr, pcb, req, faults, report, calls, checked>>

\* "except ValueError" answers 400, and UnicodeDecodeError is a ValueError;
\* "except Exception" answers 500
status_of(exc) == IF exc \in {"ValueError", "UnicodeDecodeError"} THEN 400 ELSE 500

RespondError ==
    /\ phase = "raised"
    /\ req.source # "none"
    /\ status' = status_of(failure)
    /\ phase' = "responded"
    /\ UNCHANGED <<netVarsButPhase, tokVars, asmVars, req, faults, report, calls, checked>>

NextApi == LoadProject \/ NextPcb \/ FullKicadAnalysis \/ ReturnReport \/ RespondError

SpecApi == InitApi /\ [][NextApi]_vars

(***************************************************************************)
(* Invocations running side by side.  Each call owns a frame holding its   *)
(* locals: tokens, stack and i of tokenize_sexpr; point_items, parent,     *)
(* groups, unnamed_count and nets of _build_net_connectivity; the result   *)
(* of parse_kicad_pcb.  A step advances one call by one iteration.         *)
(***************************************************************************)
MaxCalls == 2

tok_frame(t) ==
    [kind |-> "tok", text |-> t, s |-> scan_start, pc |-> "scan", result |-> NoValue]

net_frame(schematic) ==
    [kind |-> "net", sch |-> schematic, phase |-> "symbols", symbols |-> <<>>,
     power_symbols |-> <<>>, point_items |-> <<>>, parent |-> EmptyMap, wi |-> 0,
     groups |-> <<>>, gi |-> 0, unnamed_count |-> 0, net_names |-> <<>>, nets |-> <<>>]

pcb_frame(content) ==
    [kind |-> "pcb", sexpr |-> content, phase |-> "pcb_tables", failure |-> "none",
     pcb |-> [layers |-> <<>>, nets |-> <<>>, setup |-> <<>>, footprints |-> <<>>,
              segments |-> <<>>, vias |-> <<>>, zones |-> <<>>]]

\* one iteration of the while loop of tokenize_sexpr, or its return
tok_step(fr) ==
    IF fr.s.i < Len(fr.text)
    THEN LET s == scan_step(fr.text, fr.s)
         IN [fr EXCEPT !.s = s, !.pc = IF s.raised THEN "raised" ELSE "scan"]
    ELSE [fr EXCEPT !.result = return_value(fr.s.tokens), !.pc = "done"]

\* one step of parse_kicad_sch from the placed symbols on: the symbol loop,
\* the points, one wire of the union loop, the grouping, one group of the
\* naming loop, the return
net_step(fr) ==
    CASE fr.phase = "symbols" ->
            LET data == all_symbol_data(fr.sch.instances)
            IN [fr EXCEPT !.symbols = SelectSeq(data, LAMBDA d : ~d.is_power),
                          !.power_symbols = SelectSeq(data, LAMBDA d : d.is_power),
                          !.phase = "points"]
      [] fr.phase = "points" ->
            [fr EXCEPT !.point_items = collect_points(fr.sch, fr.symbols, fr.power_symbols),
                       !.wi = 1, !.phase = "union"]
      [] fr.phase = "union" /\ fr.wi <= Len(fr.sch.wires) ->
            [fr EXCEPT !.parent = _union(fr.parent, _round_coord(fr.sch.wires[fr.wi].start),
                                         _round_coord(fr.sch.wires[fr.wi].end)),
                       !.wi = fr.wi + 1]
      [] fr.phase = "union" /\ fr.wi > Len(fr.sch.wires) ->
            LET g == group_points(ensure_points(fr.parent, fr.point_items), fr.point_items)
            IN [fr EXCEPT !.parent = g.parent, !.groups = g.groups, !.gi = 1,
                          !.phase = "name"]
      [] fr.phase = "name" /\ fr.gi <= Len(fr.groups) ->
            LET r == name_group([nets |-> fr.nets, unnamed_count |-> fr.unnamed_count,
                                 net_names |-> fr.net_names], fr.groups[fr.gi])
            IN [fr EXCEPT !.nets = r.nets, !.unnamed_count = r.unnamed_count,
                          !.net_names = r.net_names, !.gi = fr.gi + 1]
      [] OTHER -> [fr EXCEPT !.phase = "done"]

\* the section of parse_kicad_pcb the call has reached: what reading it
\* raises, the result with the section, the section after it
pcb_section(fr) ==
    CASE fr.phase = "pcb_tables" ->
            [exc |-> FirstExc(<<pcb_nets_exc(fr.sexpr), pcb_setup_exc(fr.sexpr)>>),
             to |-> "pcb_footprints",
             pcb |-> [fr.pcb EXCEPT !.layers = pcb_layers_of(fr.sexpr),
                                    !.nets = pcb_nets_of(fr.sexpr),
                                    !.setup = pcb_setup_of(fr.sexpr)]]
      [] fr.phase = "pcb_footprints" ->
            [exc |-> pcb_footprints_exc(fr.sexpr), to |-> "pcb_segments",
             pcb |-> [fr.pcb EXCEPT !.footprints = pcb_footprints_of(fr.sexpr)]]
      [] fr.phase = "pcb_segments" ->
            [exc |-> pcb_segments_exc(fr.sexpr), to |-> "pcb_vias",
             pcb |-> [fr.pcb EXCEPT !.segments = pcb_segments_of(fr.sexpr)]]
      [] fr.phase = "pcb_vias" ->
            [exc |-> pcb_vias_exc(fr.sexpr), to |-> "pcb_zones",
             pcb |-> [fr.pcb EXCEPT !.vias = pcb_vias_of(fr.sexpr)]]
      [] OTHER ->
            [exc |-> pcb_zones_exc(fr.sexpr), to |-> "pcb_done",
             pcb |-> [fr.pcb EXCEPT !.zones = pcb_zones_of(fr.sexpr)]]

pcb_step(fr) ==
    LET section == pcb_section(fr)
    IN IF section.exc = "none"
       THEN [fr EXCEPT !.pcb = section.pcb, !.phase = section.to]
       ELSE [fr EXCEPT !.failure = section.exc, !.phase = "raised"]

frame_step(fr) ==
    CASE fr.kind = "tok" -> tok_step(fr)
      [] fr.kind = "net" -> net_step(fr)
      [] OTHER -> pcb_step(fr)

\* the call has returned or raised
Finished(fr) ==
    CASE fr.kind = "tok" -> fr.pc \in {"done", "raised"}
      [] fr.kind = "net" -> fr.phase = "done"
      [] OTHER -> fr.phase \in {"pcb_done", "raised"}

\* a variant in which unnamed_count is a module-level counter: the call
\* that steps writes the one counter every call reads
advance_sharing_unnamed_count(frames, c) ==
    LET fr == frame_step(frames[c])
    IN [k \in DOMAIN frames |->
          IF k = c THEN fr
          ELSE IF fr.kind = "net" /\ frames[k].kind = "net"
          THEN [frames[k] EXCEPT !.unnamed_count = fr.unnamed_count]
          ELSE frames[k]]

\* call c takes a step: it reads and writes its own frame alone, every name
\* the functions assign to being a local of the invocation
advance(frames, c) == [frames EXCEPT ![c] = frame_step(frames[c])]

\* the calls that may run side by side: texts that close a list, close one
\* that was never opened and leave one open; a lone resistor, whose nets
\* are both unnamed, and two resistors with a wire and a label; a board
\* that parses and one whose pad names its net by a list
CallInputs ==
    {tok_frame(t) : t \in {<<LP, "a", RP>>, <<RP, "a">>, <<LP, LP, "a">>}}
    \cup {net_frame([instances |-> <<InstanceCands[1]>>, wires |-> <<>>, labels |-> <<>>,
                     junctions |-> <<>>, no_connects |-> <<>>]),
          net_frame([instances |-> <<InstanceCands[1], InstanceCands[2]>>,
                     wires |-> <<WireCands[2]>>, labels |-> <<LabelCands[1]>>,
                     junctions |-> <<>>, no_connects |-> <<>>])}
    \cup {pcb_frame(List(PcbHead \o NetTableChoices[3]
                         \o <<Node("footprint",
                                   <<Atom("R_0603"),
                                     Node("pad", <<Atom("1"), Atom("smd"), Atom("rect"), n>>)>>)>>
                         \o TrackChoices[1])) :
             n \in {Node("net", <<Atom("3"), Atom("GND")>>),
                    Node("net", <<List(<<Atom("3")>>), Atom("GND")>>)}}

InitCalls ==
    /\ calls \in [1..MaxCalls -> CallInputs]
    /\ req = NoRequest
    /\ faults = <<>>
    /\ report = NoReport
    /\ status = 0
    /\ checked = {}
    /\ NetIdle
    /\ TokIdle
    /\ AsmIdle

CallStep(c) ==
    /\ ~Finished(calls[c])
    /\ calls' = advance(calls, c)
    /\ UNCHANGED <<tokVars, netVars, asmVars, req, faults, report, status, checked>>

TokenizerCallStep == \E c \in DOMAIN calls : calls[c].kind = "tok" /\ CallStep(c)

NetCallStep == \E c \in DOMAIN calls : calls[c].kind = "net" /\ CallStep(c)

PcbCallStep == \E c \in DOMAIN calls : calls[c].kind = "pcb" /\ CallStep(c)

NextCalls == TokenizerCallStep \/ NetCallStep \/ PcbCallStep

SpecCalls == InitCalls /\ [][NextCalls]_vars

Init ==
    \/ InitTok \/ InitNet \/ InitUnion \/ InitOrder \/ InitParse \/ InitReport \/ InitRules \/ InitApi
    \/ InitCalls

Next == NextTok \/ NextNet \/ NextPcb \/ ReadSchematic \/ NextReport \/ NextRules \/ NextApi \/ NextCalls

Spec == Init /\ [][Next]_vars

(***************************************************************************)
(* Claims about the placed symbols of a parsed schematic                   *)
(***************************************************************************)
\* the pins of the placed symbols have been computed
Placed == phase \in {"points", "union", "name", "done"}

\* every placed symbol, power symbols included
PlacedData == symbols \o power_symbols

\* the library pins of the instance's lib_id, [] when the table lacks it
LibPinsOf(inst) ==
    IF inst.lib_id \in DOMAIN LibSymbols THEN LibSymbols[inst.lib_id].pins ELSE <<>>

\* the indices of the library pins whose unit is 0 or the instance's unit
SelectedPins(inst) ==
    {j \in 1..Len(LibPinsOf(inst)) :
        LibPinsOf(inst)[j].unit = 0 \/ LibPinsOf(inst)[j].unit = inst.unit}

\* the n-th selected library pin, in library order
NthSelected(inst, n) ==
    LibPinsOf(inst)[CHOOSE j \in SelectedPins(inst) :
                        Cardinality({k \in SelectedPins(inst) : k <= j}) = n]

\* the symbol-local mirror on X of a pin tip, as the code mirrors it
MirroredOnX(e) == _compute_absolute_pin_position(0, 0, 0, TRUE, FALSE, e[1], e[2])

\* the absolute position of tip e for a placement, mirror on X as given
PositionOf(inst, on_x, e) ==
    _compute_absolute_pin_position(inst.x, inst.y, inst.rot, on_x, inst.mirror_y, e[1], e[2])

\* C11: mirroring a placed symbol on X and then on X again returns every pin
\* to the absolute position it has with no mirror, for every placement and
\* every library pin: the mirror applied to the once-mirrored tip gives the
\* unmirrored position, and so does the tip mirrored twice.
C11_MirrorXTwice ==
    Placed =>
        \A s \in 1..Len(PlacedData) :
            LET inst == sch.instances[PlacedData[s].inst_no]
            IN \A n \in 1..Len(PlacedData[s].pins) :
                  LET e == _compute_pin_endpoint(NthSelected(inst, n))
                  IN /\ PositionOf(inst, TRUE, MirroredOnX(e)) = PositionOf(inst, FALSE, e)
                     /\ PositionOf(inst, FALSE, MirroredOnX(MirroredOnX(e)))
                            = PositionOf(inst, FALSE, e)
                     /\ PlacedData[s].pins[n].position = PositionOf(inst, inst.mirror_x, e)

\* a symbol mirrored on X, placed away from the origin and rotated, with a
\* pin that the single mirror moves
C11_Witness ==
    /\ Placed
    /\ \E s \in 1..Len(PlacedData) :
          LET inst == sch.instances[PlacedData[s].inst_no]
          IN /\ inst.mirror_x /\ inst.rot = 90 /\ inst.x = 5080 /\ inst.y = 2540
             /\ \E n \in 1..Len(PlacedData[s].pins) :
                   LET e == _compute_pin_endpoint(NthSelected(inst, n))
                   IN /\ PlacedData[s].pins[n].position = PositionOf(inst, TRUE, e)
                      /\ PositionOf(inst, TRUE, e) # PositionOf(inst, FALSE, e)

\* rotation by -a degrees, a a multiple of 90, written out
RotatedBack(p, a) ==
    CASE a % 360 = 0 -> p
      [] a % 360 = 90 -> <<p[2], 0 - p[1]>>
      [] a % 360 = 180 -> <<0 - p[1], 0 - p[2]>>
      [] a % 360 = 270 -> <<0 - p[2], p[1]>>

\* the pin tip: anchor + rotate(-pin rotation, (length, 0))
TipOf(pin) ==
    <<pin.x + RotatedBack(<<pin.length, 0>>, pin.rotation)[1],
      pin.y + RotatedBack(<<pin.length, 0>>, pin.rotation)[2]>>

\* m: x negated when mirrored on x, y negated when mirrored on y
Mirrored(inst, e) ==
    <<IF inst.mirror_x THEN 0 - e[1] ELSE e[1], IF inst.mirror_y THEN 0 - e[2] ELSE e[2]>>

\* C19: the absolute position of every pin of every placed symbol is
\* instance position + rotate(-instance rotation, m(e)), e the pin tip
\* anchor + rotate(-pin rotation, (length, 0)): mirror, then rotation, then
\* translation.
C19_PinPositionDerived ==
    Placed =>
        \A s \in 1..Len(PlacedData) :
            LET inst == sch.instances[PlacedData[s].inst_no]
            IN \A n \in 1..Len(PlacedData[s].pins) :
                  LET m == Mirrored(inst, TipOf(NthSelected(inst, n)))
                  IN PlacedData[s].pins[n].position =
                         <<inst.x + RotatedBack(m, inst.rot)[1],
                           inst.y + RotatedBack(m, inst.rot)[2]>>

\* unit 1 of the two-unit part at (5.08, 2.54), rotated by 90 and mirrored on
\* both axes: the shared pin 8, whose own rotation is 270, lands at
\* (-2.54, 2.54)
C19_Witness ==
    /\ Placed
    /\ Len(symbols) = 1
    /\ LET inst == sch.instances[symbols[1].inst_no]
       IN /\ inst.lib_id = "Amp:Dual" /\ inst.unit = 1
          /\ inst.rot = 90 /\ inst.mirror_x /\ inst.mirror_y
          /\ inst.x = 5080 /\ inst.y = 2540
    /\ symbols[1].pins[1].number = "8"
    /\ symbols[1].pins[1].position = <<0 - 2540, 2540>>

\* the placed symbol node of the content
TheSymbolNode == _find_node(sexpr, "symbol")

\* C20: the pins listed on a placed instance are the library pins of its
\* lib_id whose unit is 0 or the instance's unit (1 when the node gives
\* none), each listed exactly once, in library order; an instance whose
\* lib_id is not in the library table has no pins.
C20_UnitFiltering ==
    Placed =>
        \A s \in 1..Len(PlacedData) :
            LET inst == sch.instances[PlacedData[s].inst_no]
                pins == PlacedData[s].pins
            IN /\ Len(pins) = Cardinality(SelectedPins(inst))
               /\ \A n \in 1..Len(pins) :
                     /\ pins[n].number = NthSelected(inst, n).number
                     /\ pins[n].name = NthSelected(inst, n).name
               /\ inst.lib_id \notin DOMAIN LibSymbols => pins = <<>>
               /\ str_field(TheSymbolNode, "unit", "absent") = "absent" => inst.unit = 1

\* unit 2 of the two-unit part: the shared pin 8, the unit's pins 7 and 6,
\* and the pins 9 and 10 of the sub-symbols whose names encode no unit
C20_Witness ==
    /\ Placed
    /\ Len(symbols) = 1
    /\ sch.instances[symbols[1].inst_no].lib_id = "Amp:Dual"
    /\ sch.instances[symbols[1].inst_no].unit = 2
    /\ [n \in 1..Len(symbols[1].pins) |-> symbols[1].pins[n].number]
           = <<"8", "7", "6", "9", "10">>

(***************************************************************************)
(* Claims about absent and short fields                                    *)
(***************************************************************************)
\* the first child of node tagged tag is absent or has at most n elements,
\* the tag counted
Short(node, tag, n) ==
    _find_node(node, tag).k = "none" \/ Len(_find_node(node, tag).v) <= n

\* parse_kicad_sch has read the content
SchRead == phase = "symbols" \/ Placed

\* the placed symbol read from a node with absent or short children
SymbolDefaults(unit_default) ==
    SchRead /\ Len(TheSymbolNode.v) >= 2 =>
        /\ Len(sch.instances) = 1
        /\ Short(TheSymbolNode, "at", 1) => sch.instances[1].x = 0
        /\ Short(TheSymbolNode, "at", 2) => sch.instances[1].y = 0
        /\ Short(TheSymbolNode, "at", 3) => sch.instances[1].rot = 0
        /\ Short(TheSymbolNode, "unit", 1) => sch.instances[1].unit = unit_default
        /\ Short(TheSymbolNode, "uuid", 1) => sch.instances[1].uuid = ""
        /\ Short(TheSymbolNode, "lib_id", 1) => sch.instances[1].lib_id = ""
        /\ Short(TheSymbolNode, "mirror", 1) =>
              ~sch.instances[1].mirror_x /\ ~sch.instances[1].mirror_y
        /\ (\A n \in 1..Len(_find_nodes(TheSymbolNode, "property")) :
               Len(_find_nodes(TheSymbolNode, "property")[n].v) < 3) =>
              /\ sch.instances[1].reference = ""
              /\ sch.instances[1].value = ""
              /\ sch.instances[1].footprint = ""

\* the pins of the library symbol whose pin nodes are (pin), a pin with
\* (at 2.54) and empty length, name and number children, and a pin with
\* (at 0 2.54) and a number only
BarePinDefaults(length_default) ==
    LibSymbols["Test:Bare"].pins =
        <<LibPin("passive", "", "", 0, 0, 0, length_default, 0),
          LibPin("passive", "", "", 2540, 0, 0, length_default, 0),
          LibPin("passive", "3", "", 0, 2540, 0, length_default, 0)>>

\* the pad node of the content and the pad recorded for it
ThePadNode == pad_nodes_of(_find_node(sexpr, "footprint"))[1]

ThePad == pcb.footprints[1].pads[1]

PadDefaults ==
    phase \in {"pcb_segments", "pcb_vias", "pcb_zones", "pcb_done"} =>
        /\ Len(pcb.footprints) = 1 /\ Len(pcb.footprints[1].pads) = 1
        /\ Short(ThePadNode, "at", 1) => ThePad.at = <<0, 0, 0>>
        /\ Short(ThePadNode, "size", 1) => ThePad.size[1] = 0
        /\ Short(ThePadNode, "size", 2) => ThePad.size[2] = 0
        /\ Short(ThePadNode, "drill", 1) => ThePad.drill = 0
        /\ Short(ThePadNode, "net", 1) => ThePad.net[1] = 0
        /\ Short(ThePadNode, "net", 2) => ThePad.net[2] = ""
        /\ Short(ThePadNode, "layers", 1) => ThePad.layers = <<>>
        /\ Short(_find_node(sexpr, "footprint"), "at", 1) => pcb.footprints[1].at = <<0, 0, 0>>

TrackDefaults ==
    phase = "pcb_done" =>
        /\ Len(pcb.segments) = Len(segment_nodes(sexpr))
        /\ \A n \in 1..Len(pcb.segments) :
              /\ Short(segment_nodes(sexpr)[n], "start", 1) => pcb.segments[n].start[1] = 0
              /\ Short(segment_nodes(sexpr)[n], "start", 2) => pcb.segments[n].start[2] = 0
              /\ Short(segment_nodes(sexpr)[n], "end", 2) => pcb.segments[n].end[2] = 0
              /\ Short(segment_nodes(sexpr)[n], "width", 1) => pcb.segments[n].width = 0
              /\ Short(segment_nodes(sexpr)[n], "layer", 1) => pcb.segments[n].layer = ""
              /\ Short(segment_nodes(sexpr)[n], "net", 1) => pcb.segments[n].net = 0
        /\ Len(pcb.vias) = Len(via_nodes(sexpr))
        /\ \A n \in 1..Len(pcb.vias) :
              /\ Short(via_nodes(sexpr)[n], "at", 1) => pcb.vias[n].at = <<0, 0>>
              /\ Short(via_nodes(sexpr)[n], "size", 1) => pcb.vias[n].size = 0
              /\ Short(via_nodes(sexpr)[n], "drill", 1) => pcb.vias[n].drill = 0
              /\ Short(via_nodes(sexpr)[n], "net", 1) => pcb.vias[n].net = 0
              /\ Short(via_nodes(sexpr)[n], "layers", 1) => pcb.vias[n].layers = <<>>
        /\ Len(pcb.zones) = Len(_find_nodes(sexpr, "zone"))
        /\ \A n \in 1..Len(pcb.zones) :
              /\ Short(_find_nodes(sexpr, "zone")[n], "net", 1) => pcb.zones[n].net = 0
              /\ Short(_find_nodes(sexpr, "zone")[n], "net_name", 1) =>
                    pcb.zones[n].net_name = ""
              /\ (Short(_find_nodes(sexpr, "zone")[n], "layer", 1)
                  /\ Short(_find_nodes(sexpr, "zone")[n], "layers", 1)) =>
                    pcb.zones[n].layers = <<>>

\* the rest of the model is built: the pins of every placed symbol are
\* computed, every footprint node of two elements or more is recorded
RestStillBuilt ==
    /\ Placed => Len(PlacedData) = Len(sch.instances)
    /\ phase = "pcb_done" => Len(pcb.footprints) = Len(footprint_nodes(sexpr))

\* C12: parse_kicad_sch and parse_kicad_pcb never raise because an optional
\* field is absent or too short; the field takes the code's default (empty
\* string, zero, origin, rotation 0, no flag, empty list; 1 for the unit of
\* a placed symbol and 2.54 for the length of a library pin) and the rest of
\* the model is still built.
C12_MissingFieldDefaults ==
    /\ failure = "none" /\ phase # "raised"
    /\ SymbolDefaults(1)
    /\ BarePinDefaults(2540)
    /\ PadDefaults
    /\ TrackDefaults
    /\ RestStillBuilt

\* C12 as stated: every absent or short field, the unit and the pin length
\* included, takes an empty string, zero, the origin or rotation 0.
C12_EveryDefaultZero ==
    /\ failure = "none" /\ phase # "raised"
    /\ SymbolDefaults(0)
    /\ BarePinDefaults(0)
    /\ PadDefaults
    /\ TrackDefaults
    /\ RestStillBuilt

\* a placed Test:Bare symbol whose node reads (at 5.08), (mirror), (unit),
\* (uuid), (property): parsed to the end with three pins
C12_Witness ==
    /\ phase = "done"
    /\ failure = "none"
    /\ _find_node(TheSymbolNode, "at") = Node("at", <<Atom("5.08")>>)
    /\ _find_node(TheSymbolNode, "unit") = Node("unit", <<>>)
    /\ _find_node(TheSymbolNode, "mirror") = Node("mirror", <<>>)
    /\ _find_node(TheSymbolNode, "uuid") = Node("uuid", <<>>)
    /\ Len(sch.instances) = 1
    /\ sch.instances[1].lib_id = "Test:Bare"
    /\ sch.instances[1].x = 5080 /\ sch.instances[1].y = 0 /\ sch.instances[1].unit = 1
    /\ Len(symbols) = 1 /\ Len(symbols[1].pins) = 3
    /\ symbols[1].pins[1].position = <<5080 + 2540, 0>>

(***************************************************************************)
(* Claims about the nets of a parsed board                                 *)
(***************************************************************************)
\* node reads (tag N ...) with N an integer literal
HasNumber(node, tag) ==
    /\ ~Short(node, tag, 1)
    /\ El(_find_node(node, tag), 1).k = "atom"
    /\ El(_find_node(node, tag), 1).v \in DOMAIN IntTable

NumberOf(node, tag) == IntTable[El(_find_node(node, tag), 1).v]

\* the top-level nodes (net N "name")
NumberedNetNodes ==
    SelectSeq(_find_nodes(sexpr, "net"),
              LAMBDA node : /\ Len(node.v) >= 3
                            /\ El(node, 1).k = "atom"
                            /\ El(node, 1).v \in DOMAIN IntTable)

RECURSIVE union_wires(_, _)
union_wires(par, wires) ==
    IF wires = <<>> THEN par
    ELSE union_wires(_union(par, _round_coord(Head(wires).start),
                            _round_coord(Head(wires).end)),
                     Tail(wires))

\* what parse_kicad_sch returns for the schematic when it runs alone
SchAlone(schematic) ==
    LET data == all_symbol_data(schematic.instances)
        syms == SelectSeq(data, LAMBDA d : ~d.is_power)
        psyms == SelectSeq(data, LAMBDA d : d.is_power)
        pts == collect_points(schematic, syms, psyms)
        g == group_points(ensure_points(union_wires(EmptyMap, schematic.wires), pts), pts)
    IN [symbols |-> syms, power_symbols |-> psyms, nets |-> name_groups(g.groups).nets]

\* what parse_kicad_pcb returns or raises for the content when it runs alone
PcbAlone(content) ==
    [failure |-> FirstExc(<<pcb_nets_exc(content), pcb_setup_exc(content),
                            pcb_footprints_exc(content), pcb_segments_exc(content),
                            pcb_vias_exc(content), pcb_zones_exc(content)>>),
     pcb |-> [layers |-> pcb_layers_of(content), nets |-> pcb_nets_of(content),
              setup |-> pcb_setup_of(content), footprints |-> pcb_footprints_of(content),
              segments |-> pcb_segments_of(content), vias |-> pcb_vias_of(content),
              zones |-> pcb_zones_of(content)]]

\* the finished call has returned, or raised, what a call alone does
AsAlone(fr) ==
    CASE fr.kind = "tok" ->
            IF fr.pc = "raised" THEN tokenize_sexpr(fr.text) = NoValue
            ELSE fr.result = tokenize_sexpr(fr.text)
      [] fr.kind = "net" ->
            [symbols |-> fr.symbols, power_symbols |-> fr.power_symbols, nets |-> fr.nets]
               = SchAlone(fr.sch)
      [] OTHER ->
            /\ fr.failure = PcbAlone(fr.sexpr).failure
            /\ fr.failure = "none" => fr.pcb = PcbAlone(fr.sexpr).pcb

\* C16: whatever the order in which the steps of the calls are interleaved,
\* each call that has finished returned exactly what it returns when run
\* alone.
C16_CallsDoNotInterfere ==
    \A c \in DOMAIN calls : Finished(calls[c]) => AsAlone(calls[c])

\* a call of the net builder has returned nets holding an unnamed net while
\* another call is inside its own naming loop, its counter already raised
C16_Witness ==
    \E c, k \in DOMAIN calls :
        /\ c # k
        /\ calls[c].kind = "net" /\ Finished(calls[c]) /\ calls[c].unnamed_count >= 2
        /\ calls[k].kind = "net" /\ calls[k].phase = "name"
        /\ calls[k].unnamed_count >= 1 /\ calls[k].gi <= Len(calls[k].groups)

(***************************************************************************)
(* Claims about the answers of /api/kicad/analyze                          *)
(***************************************************************************)
\* the request names a path that does not exist or a directory without a
\* schematic and a board, or names neither a path nor content
StructuralError ==
    \/ req.source = "neither"
    \/ req.source = "path" /\ req.path \in {"missing", "no_files"}

\* C14: a structural error is answered with status 400, and every other
\* failure raised while loading, parsing or analysing is answered with
\* status 500 and never with 400.
C14_ErrorClassesDistinct ==
    phase = "responded" /\ failure # "none" =>
        IF StructuralError THEN failure = "ValueError" /\ status = 400
        ELSE status = 500

(***************************************************************************)
(* Claims about the consumers of the parsed model                          *)
(***************************************************************************)
\* parse_kicad_sch or parse_kicad_pcb has returned its model
ParserReturned == phase \in {"done", "pcb_done", "reported"}

FirstByTitle(fault_list) ==
    LET keep == {n \in 1..Len(fault_list) :
                    \A m \in 1..(n - 1) : fault_list[m].title # fault_list[n].title}
        nth(j) == CHOOSE n \in keep : Cardinality({k \in keep : k <= n}) = j
    IN [j \in 1..Cardinality(keep) |-> fault_list[nth(j)]]

\* C15 as stated: in every report handed back, for Wokwi and for KiCad
\* analyses alike, no two faults have the same title (the first fault with a
\* title is kept, later ones dropped, order preserved) and the summary's
\* error, warning and info counts equal the numbers of faults of each
\* severity in the reported list.
C15_ReportAggregation ==
    phase = "reported" =>
        /\ \A m, n \in 1..Len(report.faults) :
              m # n => report.faults[m].title # report.faults[n].title
        /\ report.faults = FirstByTitle(faults)
        /\ report.summary.errors = count_severity(report.faults, "error")
        /\ report.summary.warnings = count_severity(report.faults, "warning")
        /\ report.summary.infos = count_severity(report.faults, "info")

(***************************************************************************)
(* Lexical well-formedness of an input and the serializer of the           *)
(* round-trip property (spec section 8)                                    *)
(***************************************************************************)
\* balanced parentheses outside quotes, every quote terminated
RECURSIVE WellFormedFrom(_, _, _)
WellFormedFrom(t, j, depth) ==
    IF j >= Len(t) THEN depth = 0
    ELSE LET c == CharAt(t, j)
         IN CASE c = LP -> WellFormedFrom(t, j + 1, depth + 1)
              [] c = RP -> depth > 0 /\ WellFormedFrom(t, j + 1, depth - 1)
              [] c = DQ -> LET e == quote_end(t, j + 1)
                           IN e < Len(t) /\ WellFormedFrom(t, e + 1, depth)
              [] OTHER -> WellFormedFrom(t, j + 1, depth)

WellFormed(t) == WellFormedFrom(t, 0, 0)

\* every quoted atom is non-empty and holds no whitespace, parenthesis or quote
RECURSIVE QuotedPlainFrom(_, _)
QuotedPlainFrom(t, j) ==
    IF j >= Len(t) THEN TRUE
    ELSE IF CharAt(t, j) = DQ
         THEN LET e == quote_end(t, j + 1)
                  body == Slice(t, j + 1, e)
              IN /\ body # <<>>
                 /\ \A n \in 1..Len(body) : body[n] \notin BareStop
                 /\ QuotedPlainFrom(t, e + 1)
         ELSE QuotedPlainFrom(t, j + 1)

QuotedAtomsPlain(t) == QuotedPlainFrom(t, 0)

HasQuotedAtom(t) == \E n \in 1..Len(t) : t[n] = DQ

\* atoms joined with spaces, lists wrapped in parentheses
RECURSIVE Serialize(_)
RECURSIVE JoinSpaces(_)
Serialize(nd) ==
    IF nd.k = "atom" THEN nd.v ELSE <<LP>> \o JoinSpaces(nd.v) \o <<RP>>
JoinSpaces(xs) ==
    IF xs = <<>> THEN <<>>
    ELSE IF Len(xs) = 1 THEN Serialize(xs[1])
    ELSE Serialize(xs[1]) \o <<SP>> \o JoinSpaces(Tail(xs))

(***************************************************************************)
(* Claims about the tokenizer                                              *)
(***************************************************************************)
\* C8: tokenize_sexpr never raises: on every input, unmatched parentheses,
\* an unterminated quoted atom and a quoted atom ending in a backslash
\* included, no step of the scan raises, a step is possible until the
\* function has returned, and what it returns is a token tree.
C8_NeverRaises ==
    /\ ~raised
    /\ pc \in {"scan", "done"}
    /\ pc = "scan" => ENABLED NextTok
    /\ pc = "done" => result.k \in {"atom", "list"}

\* the input )("a\ : unmatched ')', unclosed '(', unterminated quoted atom
\* whose last character is a backslash; the partial tree is returned
C8_Witness ==
    /\ pc = "done"
    /\ text = <<RP, LP, DQ, "a", BS>>
    /\ result = List(<<Atom(<<"a", BS>>)>>)

\* C9: the result is the single top-level token when that token is a list,
\* and the flat list of top-level tokens in every other case (no token,
\* several tokens, a single top-level atom).
C9_ResultShape ==
    pc = "done" =>
        result = IF Len(tokens) = 1 /\ tokens[1].k = "list"
                 THEN tokens[1]
                 ELSE List(tokens)

\* C10 as stated: for every well-formed input (atoms bare or quoted),
\* serializing the returned tree and tokenizing again gives an equal tree.
C10_RoundTripAnyAtom ==
    (pc = "done" /\ WellFormed(text)) =>
        tokenize_sexpr(Serialize(result)) = result

\* C10 amended: the round trip gives an equal tree for every well-formed
\* input whose quoted atoms are non-empty and hold no whitespace,
\* parenthesis or double quote.
C10_RoundTripPlainAtoms ==
    (pc = "done" /\ WellFormed(text) /\ QuotedAtomsPlain(text)) =>
        tokenize_sexpr(Serialize(result)) = result

\* the input ("a"): a quoted atom inside a list, returned as ['a']
C10_Witness ==
    /\ pc = "done"
    /\ text = <<LP, DQ, "a", DQ, RP>>
    /\ result = List(<<Atom(<<"a">>)>>)
    /\ Serialize(result) = <<LP, "a", RP>>

(***************************************************************************)
(* Claims about the nets of a parsed schematic                             *)
(***************************************************************************)
Done == phase = "done"

NetNameSet == {nets[n].name : n \in 1..Len(nets)}

\* the member list of the n-th net, as the source returns it
NetRefs(n) == [k \in 1..Len(nets[n].pins) |-> nets[n].pins[k].ref]

RefsIn(n) == {nets[n].pins[k].ref : k \in 1..Len(nets[n].pins)}

SrcsIn(n) == {nets[n].pins[k].src : k \in 1..Len(nets[n].pins)}

\* the pins of the placed (non-power) symbols: <<symbol index, pin index>>
SymbolPins == UNION {{s} \X DOMAIN symbols[s].pins : s \in 1..Len(symbols)}

PinKey(sp) == _round_coord(symbols[sp[1]].pins[sp[2]].position)
PinSrc(sp) == <<symbols[sp[1]].inst_no, sp[2]>>
PinRefOf(sp) == pin_ref(pin_item(symbols[sp[1]], sp[2]))

WireKeys == UNION {{_round_coord(sch.wires[n].start), _round_coord(sch.wires[n].end)} :
                      n \in 1..Len(sch.wires)}
LabelKeys == {_round_coord(sch.labels[n].position) : n \in 1..Len(sch.labels)}
JunctionKeys == {_round_coord(sch.junctions[n]) : n \in 1..Len(sch.junctions)}
PowerPinKeys ==
    UNION {{_round_coord(power_symbols[s].pins[p].position) :
                p \in 1..Len(power_symbols[s].pins)} : s \in 1..Len(power_symbols)}

\* the keys joined to key a by a chain of wires
RECURSIVE WireClosure(_)
WireClosure(S) ==
    LET T == S \cup {_round_coord(sch.wires[n].end) :
                        n \in {m \in 1..Len(sch.wires) : _round_coord(sch.wires[m].start) \in S}}
               \cup {_round_coord(sch.wires[n].start) :
                        n \in {m \in 1..Len(sch.wires) : _round_coord(sch.wires[m].end) \in S}}
    IN IF T = S THEN S ELSE WireClosure(T)

Component(a) == WireClosure({a})

\* a pin that meets no wire endpoint, label, power-symbol pin or junction
Isolated(sp) == PinKey(sp) \notin (WireKeys \cup LabelKeys \cup PowerPinKeys \cup JunctionKeys)

\* the places (net, position) at which a pin is listed
ListedAt(sp) ==
    {np \in UNION {{n} \X DOMAIN nets[n].pins : n \in 1..Len(nets)} :
        nets[np[1]].pins[np[2]].src = PinSrc(sp)}

UniquePinRefs == \A a, b \in SymbolPins : a # b => PinRefOf(a) # PinRefOf(b)

GroupHasPin(g) == \E n \in 1..Len(groups[g].items) : groups[g].items[n].type = "pin"
GroupHasName(g) == \E n \in 1..Len(groups[g].items) : name_bearing(groups[g].items[n])

ResistorSch ==
    [instances |-> <<Instance("Device:R", "R1", "10k", 0, 0, 0)>>,
     wires |-> <<Wire(0, 0, -2540, 0), Wire(2540, 0, 5080, 0)>>,
     labels |-> <<Label("VCC", -2540, 0), Label("GND", 5080, 0)>>,
     junctions |-> <<>>, no_connects |-> <<>>]

TwoPowerSch ==
    [instances |-> <<Instance("power:+5V", "#PWR01", "+5V", 0, 0, 0),
                     Instance("power:+5V", "#PWR02", "+5V", 10000, 0, 0)>>,
     wires |-> <<Wire(0, 0, 10000, 0)>>,
     labels |-> <<>>,
     junctions |-> <<>>, no_connects |-> <<>>]

OrphanLabelSch ==
    [instances |-> <<>>, wires |-> <<>>,
     labels |-> <<Label("CLK", 0, 0)>>, junctions |-> <<>>,
     no_connects |-> <<>>]

(***************************************************************************)
(* Claims about the names of the nets                                      *)
(***************************************************************************)
\* the insertions of the five loops, ranked in scan order: wire endpoints,
\* symbol pins, power pins, labels, junctions
WireScan ==
    UNION {{[rank |-> 10000 + 100 * n + 1, key |-> _round_coord(sch.wires[n].start)],
            [rank |-> 10000 + 100 * n + 2, key |-> _round_coord(sch.wires[n].end)]} :
              n \in 1..Len(sch.wires)}

PinScan ==
    {[rank |-> 20000 + 100 * sp[1] + sp[2], key |-> PinKey(sp)] : sp \in SymbolPins}

PowerScan ==
    UNION {{[rank |-> 30000 + 100 * s + p,
             key |-> _round_coord(power_symbols[s].pins[p].position),
             name |-> power_symbols[s].value] :
                p \in 1..Len(power_symbols[s].pins)} : s \in 1..Len(power_symbols)}

LabelScan ==
    {[rank |-> 40000 + 100 * n, key |-> _round_coord(sch.labels[n].position),
      name |-> sch.labels[n].name] : n \in 1..Len(sch.labels)}

JunctionScan ==
    {[rank |-> 50000 + 100 * n, key |-> _round_coord(sch.junctions[n])] :
        n \in 1..Len(sch.junctions)}

\* the rank at which the point of key k is first inserted
FirstRank(k) ==
    LET ranks == {e.rank : e \in {x \in WireScan \cup PinScan \cup JunctionScan : x.key = k}}
                 \cup {e.rank : e \in {x \in PowerScan \cup LabelScan : x.key = k}}
    IN CHOOSE r \in ranks : \A q \in ranks : r <= q

\* the name-bearing insertions into the points of the g-th group
NamedIn(g) == {e \in PowerScan \cup LabelScan : e.key \in Component(groups[g].key)}

\* the first of them in scan order: points in order of first insertion, the
\* items of a point in insertion order
FirstNamedIn(g) ==
    CHOOSE e \in NamedIn(g) :
        \A f \in NamedIn(g) :
            \/ FirstRank(e.key) < FirstRank(f.key)
            \/ FirstRank(e.key) = FirstRank(f.key) /\ e.rank <= f.rank

\* the rank at which the first point of the g-th group is inserted
GroupRank(g) ==
    LET ranks == {FirstRank(point_items[p].key) :
                     p \in {q \in 1..Len(point_items) :
                               point_items[q].key \in Component(groups[g].key)}}
    IN CHOOSE r \in ranks : \A q \in ranks : r <= q

\* C18: each connected group is named by the first power-symbol value or
\* label name among its members in scan order (points in order of first
\* insertion, items of a point in insertion order); a group with no such
\* member is named _unnamed_net_n, n being 1 for the first unnamed group in
\* discovery order and one more for each further unnamed group.
C18_NetNaming ==
    Done =>
        /\ Len(net_names) = Len(groups)
        /\ \A g, h \in 1..Len(groups) : g < h => GroupRank(g) < GroupRank(h)
        /\ \A p \in 1..Len(point_items) :
              Cardinality({g \in 1..Len(groups) :
                              point_items[p].key \in Component(groups[g].key)}) = 1
        /\ \A g \in 1..Len(groups) :
              IF NamedIn(g) # {}
              THEN net_names[g] = FirstNamedIn(g).name
              ELSE net_names[g] =
                       "_unnamed_net_"
                       \o ToString(1 + Cardinality({h \in 1..(g - 1) : NamedIn(h) = {}}))

\* a group holding two labels of different names, named by the first in
\* scan order, beside two groups without a name
C18_Witness ==
    /\ Done
    /\ \E g \in 1..Len(groups) :
          /\ \E e, f \in NamedIn(g) : e.name # f.name
          /\ net_names[g] = FirstNamedIn(g).name
    /\ \E g, h \in 1..Len(groups) :
          /\ net_names[g] = "_unnamed_net_1"
          /\ net_names[h] = "_unnamed_net_2"

\* C1 as stated: in the nets returned for any schematic, every pin reference
\* string appears in at most one net's member list.
C1_RefStringInOneNet ==
    Done => \A m, n \in 1..Len(nets) : m # n => RefsIn(m) \cap RefsIn(n) = {}

\* C1 amended: when no two placed symbol pins carry the same pin reference
\* string, every pin reference string appears in at most one net's list.
C1_UniqueRefStringInOneNet ==
    (Done /\ UniquePinRefs) =>
        \A m, n \in 1..Len(nets) : m # n => RefsIn(m) \cap RefsIn(n) = {}

\* two symbols R1 and R2 with distinct pin references, a wire, several nets
C1_Witness ==
    /\ Done
    /\ UniquePinRefs
    /\ Len(symbols) = 2
    /\ Len(sch.wires) >= 1
    /\ Len(nets) >= 2

\* C2 as stated: a symbol pin whose rounded position meets no wire endpoint,
\* label, power-symbol pin or junction has no entry in any net.
C2_IsolatedPinAbsent ==
    Done => \A sp \in SymbolPins :
                Isolated(sp) => \A n \in 1..Len(nets) : PinRefOf(sp) \notin RefsIn(n)

\* C2 amended: such a pin is listed exactly once in nets, under a
\* synthesized name _unnamed_net_n.
C2_IsolatedPinInUnnamedNet ==
    Done => \A sp \in SymbolPins :
                Isolated(sp) =>
                    /\ Cardinality(ListedAt(sp)) = 1
                    /\ \A np \in ListedAt(sp) :
                          /\ nets[np[1]].pins[np[2]].ref = PinRefOf(sp)
                          /\ nets[np[1]].name \in
                                 {unnamed_net_name(k) : k \in 1..Len(groups)}

\* an isolated pin beside a pin that a wire reaches
C2_Witness ==
    /\ Done
    /\ \E a, b \in SymbolPins : Isolated(a) /\ PinKey(b) \in WireKeys
    /\ Len(sch.labels) >= 1

\* C3: two symbol pins whose rounded positions coincide or are joined by a
\* chain of wires are listed in the same net entry, and every symbol pin is
\* listed in exactly one net, once.
C3_LinkedPinsShareOneNet ==
    Done =>
        /\ \A a, b \in SymbolPins :
              PinKey(b) \in Component(PinKey(a)) =>
                  \E n \in 1..Len(nets) :
                      /\ {PinSrc(a), PinSrc(b)} \subseteq SrcsIn(n)
                      /\ {PinRefOf(a), PinRefOf(b)} \subseteq RefsIn(n)
        /\ \A a \in SymbolPins : Cardinality(ListedAt(a)) = 1

\* two pins at different positions that only a chain of two wires joins
C3_Witness ==
    /\ Done
    /\ \E a, b \in SymbolPins :
          /\ PinKey(a) # PinKey(b)
          /\ PinKey(b) \in Component(PinKey(a))
          /\ \A n \in 1..Len(sch.wires) :
                {_round_coord(sch.wires[n].start), _round_coord(sch.wires[n].end)}
                    # {PinKey(a), PinKey(b)}

\* C4 as stated: a group with a label or power item but no symbol pin is
\* still present in nets under its name.
C4_PinlessNamedGroupRetained ==
    Done => \A g \in 1..Len(groups) :
                (GroupHasName(g) /\ ~GroupHasPin(g)) => net_names[g] \in NetNameSet

\* C4 amended: such a group adds no entry: its name is in nets only when
\* another group with a symbol pin resolves to the same name; the two +5V
\* power symbols joined by one wire form one group named +5V and nets is
\* empty.
C4_PinlessNamedGroupDropped ==
    Done =>
        /\ \A g \in 1..Len(groups) :
              (GroupHasName(g) /\ ~GroupHasPin(g)) =>
                  (net_names[g] \in NetNameSet <=>
                       \E h \in 1..Len(groups) :
                           GroupHasPin(h) /\ net_names[h] = net_names[g])
        /\ sch = TwoPowerSch => (Len(groups) = 1 /\ net_names = <<"+5V">> /\ nets = <<>>)

C4_Witness ==
    /\ Done
    /\ sch = TwoPowerSch
    /\ Len(power_symbols) = 2
    /\ Len(groups[1].items) = 4

\* C5: every entry of nets has at least one pin member; a label CLK alone at
\* (0,0) gives "CLK" not in nets.
C5_EveryNetHasAPin ==
    Done =>
        /\ \A n \in 1..Len(nets) : nets[n].pins # <<>>
        /\ sch = OrphanLabelSch => "CLK" \notin NetNameSet

C5_Witness ==
    /\ Done
    /\ sch = OrphanLabelSch
    /\ net_names = <<"CLK">>

\* C6: a pin joined by wires to a labelled point is listed in the net named
\* by that label (the only name its group carries); for one Device:R R1 with
\* pin tips at (0,0) and (2.54,0), a wire to label VCC and a wire to label
\* GND, nets is exactly {"VCC": ["R1:1"], "GND": ["R1:2"]}.
C6_ResistorBetweenLabels ==
    Done =>
        /\ \A sp \in SymbolPins : \A l \in 1..Len(sch.labels) :
              (/\ _round_coord(sch.labels[l].position) \in Component(PinKey(sp))
               /\ \A m \in 1..Len(sch.labels) :
                     _round_coord(sch.labels[m].position) \in Component(PinKey(sp))
                         => sch.labels[m].name = sch.labels[l].name
               /\ PowerPinKeys \cap Component(PinKey(sp)) = {})
              => \E n \in 1..Len(nets) :
                     nets[n].name = sch.labels[l].name /\ PinRefOf(sp) \in RefsIn(n)
        /\ sch = ResistorSch =>
              /\ symbols[1].pins[1].position = <<0, 0>>
              /\ symbols[1].pins[2].position = <<2540, 0>>
              /\ Len(nets) = 2
              /\ \E n \in 1..2 : nets[n].name = "VCC" /\ NetRefs(n) = <<"R1:1">>
              /\ \E n \in 1..2 : nets[n].name = "GND" /\ NetRefs(n) = <<"R1:2">>

C6_Witness ==
    /\ Done
    /\ sch = ResistorSch
    /\ Len(groups) = 2

\* the pin references of the groups that resolved to a name, in group order
RECURSIVE RefsOfGroupsNamed(_, _)
RefsOfGroupsNamed(name, g) ==
    IF g > Len(groups) THEN <<>>
    ELSE (IF net_names[g] = name THEN pin_refs_of(groups[g].items) ELSE <<>>)
         \o RefsOfGroupsNamed(name, g + 1)

\* C7: groups that resolve to the same net name share one entry of nets,
\* whose pin list is the concatenation of the groups' pin lists in group
\* discovery order, no pin lost or duplicated.
C7_MergedByName ==
    Done =>
        /\ \A m, n \in 1..Len(nets) : m # n => nets[m].name # nets[n].name
        /\ \A n \in 1..Len(nets) : nets[n].pins = RefsOfGroupsNamed(nets[n].name, 1)
        /\ \A g \in 1..Len(groups) : GroupHasPin(g) => net_names[g] \in NetNameSet

\* two groups with pins, not joined by any wire, both resolving to one name
C7_Witness ==
    /\ Done
    /\ \E g, h \in 1..Len(groups) :
          /\ g < h
          /\ net_names[g] = net_names[h]
          /\ GroupHasPin(g) /\ GroupHasPin(h)
          /\ groups[h].key \notin Component(groups[g].key)
          /\ \E n \in 1..Len(nets) :
                /\ nets[n].name = net_names[g]
                /\ Len(nets[n].pins) >= 2

(***************************************************************************)
(* Claims about the scan loop of the tokenizer                             *)
(***************************************************************************)
\* the stack holds the root list (the empty path) at its bottom
RootOpen == Len(stack) >= 1 /\ stack[1] = <<>>

\* the text with the character at index j (from 0) replaced by a space
Blanked(t, j) == [t EXCEPT ![j + 1] = SP]

\* the scan stands at a ')' while only the root is open
AtUnbalancedClose == Scanning /\ CharAt(text, i) = RP /\ Len(stack) = 1

\* C21: at every step of the scan the stack of open lists holds at least
\* the root list; a ')' met while only the root is open changes neither the
\* stack nor the tree built so far, and the tokens that follow it are
\* appended at top level: the scan ends with the tree it would have built
\* had the ')' been a blank, and the next token lengthens the top level.
C21_UnbalancedCloseNoOp ==
    /\ [](pc \in {"scan", "done"} => RootOpen)
    /\ [][(AtUnbalancedClose /\ CloseParen) =>
             /\ stack' = stack
             /\ tokens' = tokens
             /\ i' = i + 1
             /\ scan_loop(text, ScanState).tokens
                   = scan_loop(Blanked(text, i), ScanState).tokens
             /\ (i' < Len(text) /\ CharAt(text, i') \notin ({RP} \cup WhitespaceChars)) =>
                   Len(scan_step(text, ScanState').tokens) = Len(tokens) + 1]_vars

\* the input a)a has returned: the ')' was met with only the root open and
\* the atom after it is the second top-level token
C21_Witness ==
    /\ pc = "done"
    /\ text = <<"a", RP, "a">>
    /\ Len(stack) = 1
    /\ tokens = <<Atom(<<"a">>), Atom(<<"a">>)>>

\* the number of backslashes that stand in a row just before index p, none
\* of them before index lo
RECURSIVE BackslashRun(_, _, _)
BackslashRun(t, p, lo) ==
    IF p > lo /\ CharAt(t, p - 1) = BS THEN 1 + BackslashRun(t, p - 1, lo) ELSE 0

\* the character at p is escaped inside the quoted atom opened at index q0:
\* an odd number of backslashes precedes it
Escaped(t, p, q0) == BackslashRun(t, p, q0 + 1) % 2 = 1

\* the quotes after the opening quote at q0 that no backslash escapes
UnescapedQuotes(t, q0) ==
    {q \in (q0 + 1)..(Len(t) - 1) : CharAt(t, q) = DQ /\ ~Escaped(t, q, q0)}

\* the least member of a non-empty set of indices
Least(S) == CHOOSE q \in S : \A r \in S : q <= r

\* the last entry of the list an open-list path refers to
RECURSIVE LastAt(_, _)
LastAt(xs, path) ==
    IF path = <<>> THEN xs[Len(xs)] ELSE LastAt(xs[Head(path)].v, Tail(path))

\* the scan stands at an opening quote that has a closing quote
AtClosedQuote == Scanning /\ CharAt(text, i) = DQ /\ UnescapedQuotes(text, i) # {}

\* C22: a '"' starts an atom that ends at the next '"' not preceded by an
\* escaping backslash (a backslash escapes the one character after it, a
\* quote or another backslash included); the atom is the text between the
\* two quotes, backslashes kept as they are, and parentheses and whitespace
\* between the quotes belong to the atom: the step appends that one atom to
\* the innermost open list, opens and closes no list, and resumes after the
\* closing quote.
C22_QuotedAtoms ==
    [][(AtClosedQuote /\ QuotedAtom) =>
          LET q == Least(UnescapedQuotes(text, i))
              top == stack[Len(stack)]
          IN /\ i' = q + 1
             /\ stack' = stack
             /\ LenAt(tokens', top) = LenAt(tokens, top) + 1
             /\ LastAt(tokens', top) = Atom(SubSeq(text, i + 2, q))
             /\ \A a \in 1..Len(tokens) : a < Len(tokens) => tokens'[a] = tokens[a]
             /\ Len(tokens') \in {Len(tokens), Len(tokens) + 1}]_vars

\* the input "\"(" has returned the single atom \"( : the escaped quote and
\* the parenthesis are part of the atom and the backslash is kept
C22_Witness ==
    /\ pc = "done"
    /\ text = <<DQ, BS, DQ, LP, DQ>>
    /\ result = Atom(<<BS, DQ, LP>>)
    /\ Len(stack) = 1

\* the iterations the scan loop makes from state s, counted up to fuel
RECURSIVE iterations_within(_, _, _)
iterations_within(t, s, fuel) ==
    IF fuel = 0 \/ s.raised \/ s.i >= Len(t) THEN 0
    ELSE 1 + iterations_within(t, scan_step(t, s), fuel - 1)

\* C30: every iteration of the scan loop moves the scan index forward by at
\* least one character, whichever of the five branches it takes, so from
\* every state of the scan the loop ends after at most len(text) - i more
\* iterations, and after at most len(text) iterations in all.
C30_ScanTerminates ==
    /\ [](pc = "scan" =>
             /\ iterations_within(text, ScanState, Len(text) + 1) <= Len(text) - Min(i, Len(text))
             /\ iterations_within(text, scan_start, Len(text) + 1) <= Len(text))
    /\ [][(OpenParen \/ CloseParen \/ QuotedAtom \/ Whitespace \/ BareAtom) => i' >= i + 1]_vars
    /\ [][Scanning => (i' >= i + 1 /\ pc' = "scan")]_vars

\* the input () a" has returned: the loop took each of its five branches
\* once, five iterations for five characters, and the unterminated quote
\* left the index past the end of the text
C30_Witness ==
    /\ pc = "done"
    /\ text = <<LP, RP, SP, "a", DQ>>
    /\ iterations_within(text, scan_start, Len(text) + 1) = 5
    /\ i = 6

(***************************************************************************)
(* Claims about the wires of a parsed schematic                            *)
(***************************************************************************)
\* the xy children of the pts child of a wire node, none without a pts child
XyNodesOf(wire_node) ==
    IF \E n \in 1..Len(wire_node.v) : is_tagged(wire_node.v[n], "pts")
    THEN LET first == CHOOSE n \in 1..Len(wire_node.v) :
                         /\ is_tagged(wire_node.v[n], "pts")
                         /\ \A m \in 1..(n - 1) : ~is_tagged(wire_node.v[m], "pts")
         IN SelectSeq(wire_node.v[first].v, LAMBDA c : is_tagged(c, "xy"))
    ELSE <<>>

\* the wire nodes of the content, in order
WireNodes == SelectSeq(Children(sexpr), LAMBDA c : is_tagged(c, "wire"))

\* the wire nodes that have two points or more, in order
TwoPointWireNodes == SelectSeq(WireNodes, LAMBDA w : Len(XyNodesOf(w)) >= 2)

\* the number of wire items kept under the points of point_items
RECURSIVE WireItemCount(_)
WireItemCount(pts) ==
    IF pts = <<>> THEN 0
    ELSE Len(SelectSeq(Head(pts).items, LAMBDA it : it.type = "wire"))
         + WireItemCount(Tail(pts))

\* the keys of point_items that hold a wire item
KeysWithWire ==
    {point_items[n].key : n \in {m \in 1..Len(point_items) :
        \E k \in 1..Len(point_items[m].items) : point_items[m].items[k].type = "wire"}}

\* C23: each wire node contributes at most one wire, made of the first two
\* xy points under its pts child, further points being ignored; a wire node
\* with a single point (or none) is not collected, and so adds no
\* connection point and no union: the wire items of point_items stand at
\* the two ends of the collected wires only, two per wire, and every link
\* of the parent map joins keys reached from collected wires.
C23_WireCollection ==
    SchRead =>
        /\ Len(sch.wires) = Len(TwoPointWireNodes)
        /\ Len(sch.wires) <= Len(WireNodes)
        /\ \A n \in 1..Len(sch.wires) :
              /\ sch.wires[n].start = _get_xy(XyNodesOf(TwoPointWireNodes[n])[1])
              /\ sch.wires[n].end = _get_xy(XyNodesOf(TwoPointWireNodes[n])[2])
        /\ phase \in {"union", "name", "done"} =>
              /\ WireItemCount(point_items) = 2 * Len(sch.wires)
              /\ KeysWithWire = WireKeys
              /\ \A k \in DOMAIN parent : parent[k] # k => {k, parent[k]} \subseteq WireKeys

\* a parsed content whose wire node has three points: it was collected as
\* the wire of its first two, which the union joined, and the third point
\* holds no wire item
C23_Witness ==
    /\ phase = "done"
    /\ \E w \in 1..Len(WireNodes) : Len(XyNodesOf(WireNodes[w])) = 3
    /\ Len(sch.wires) = 1
    /\ sch.wires[1] = Wire(0, 0, 5080, 2540)
    /\ <<254, 0>> \notin KeysWithWire
    /\ \E k \in DOMAIN parent : parent[k] # k

(***************************************************************************)
(* Claims about the library pins                                           *)
(***************************************************************************)
\* the paths (child positions from the definition down) of the pin nodes
\* below a node, in the order of the text, sub-nodes entered where they stand
RECURSIVE PinPathsBelow(_, _, _)
PinPathsBelow(node, path, n) ==
    IF n > Len(node.v) THEN <<>>
    ELSE (IF is_tagged(node.v[n], "pin") THEN <<path \o <<n>>>>
          ELSE IF is_tagged(node.v[n], "symbol")
               THEN PinPathsBelow(node.v[n], path \o <<n>>, 1)
               ELSE <<>>)
         \o PinPathsBelow(node, path, n + 1)

\* the node a path leads to
RECURSIVE NodeAt(_, _)
NodeAt(node, path) ==
    IF path = <<>> THEN node ELSE NodeAt(node.v[Head(path)], Tail(path))

\* the "_"-delimited segments of the name of a sub-node
SegmentsOf(sub) == IF Len(sub.v) > 1 THEN El(sub, 1).v ELSE <<"">>

\* the unit a name tells: its second-to-last segment when it has three
\* segments or more and that segment is an integer, 0 otherwise
UnitOfSegments(segs) ==
    IF Len(segs) >= 3 /\ segs[Len(segs) - 1] \in DOMAIN IntTable
    THEN IntTable[segs[Len(segs) - 1]]
    ELSE 0

\* the unit of the pin at a path: 0 right under the definition, else the
\* unit of the name of the sub-node that holds the pin
UnitAtPath(def, path) ==
    IF Len(path) = 1 THEN 0
    ELSE UnitOfSegments(SegmentsOf(NodeAt(def, SubSeq(path, 1, Len(path) - 1))))

\* the definitions of the library of the parsed content
LibDefs == _find_nodes(_find_node(sexpr, "lib_symbols"), "symbol")

\* a definition whose lib_id no later definition carries
LastDefOf(d) == \A m \in (d + 1)..Len(LibDefs) : El(LibDefs[m], 1) # El(LibDefs[d], 1)

\* C24: pins right under a library symbol definition have unit 0; pins
\* under a nested symbol sub-node have the unit given by the second-to-last
\* "_"-delimited segment of the sub-node's name, and unit 0 when the name
\* has fewer than three segments or that segment is no integer; pins of a
\* sub-node nested deeper take the unit of their innermost enclosing
\* sub-node.  The table of the parsed content, which the placed symbols
\* draw their pins from, lists every pin once in the order of the text.
C24_LibraryPinUnits ==
    SchRead =>
        /\ lib_symbols_of(sexpr) = LibSymbols
        /\ \A d \in 1..Len(LibDefs) :
              LastDefOf(d) =>
                  LET paths == PinPathsBelow(LibDefs[d], <<>>, 1)
                      pins == LibSymbols[El(LibDefs[d], 1).v].pins
                  IN /\ Len(pins) = Len(paths)
                     /\ \A n \in 1..Len(paths) :
                           /\ pins[n].unit = UnitAtPath(LibDefs[d], paths[n])
                           /\ pins[n].number = str_field(NodeAt(LibDefs[d], paths[n]), "number", "")
        /\ \A s \in 1..Len(symbols) :
              LET inst == sch.instances[symbols[s].inst_no]
                  pins == lib_sym_of(inst.lib_id).pins
              IN \A n \in 1..Len(pins) :
                    (pins[n].unit \in {0, inst.unit}) =>
                        \E k \in 1..Len(symbols[s].pins) :
                            symbols[s].pins[k].number = pins[n].number

\* the nested part placed as unit 1: its pins are TOP (right under the
\* definition), B (under Deep_1_1 inside Deep_2_1), C (under Deep_1, a name
\* of two segments) and E (under My_Part_1_1); A and D of unit 2 are left out
C24_Witness ==
    /\ phase = "done"
    /\ Len(symbols) = 1
    /\ sch.instances[symbols[1].inst_no].lib_id = "Nest:Deep"
    /\ sch.instances[symbols[1].inst_no].unit = 1
    /\ [n \in 1..Len(symbols[1].pins) |-> symbols[1].pins[n].name] = <<"TOP", "B", "C", "E">>
    /\ [n \in 1..6 |-> LibSymbols["Nest:Deep"].pins[n].unit] = <<0, 2, 1, 0, 2, 1>>

(***************************************************************************)
(* Claims about the union-find of the net resolver                         *)
(***************************************************************************)
\* the key reached from k by following parent n times
RECURSIVE Ancestor(_, _, _)
Ancestor(par, k, n) == IF n = 0 THEN k ELSE Ancestor(par, par[k], n - 1)

\* no cycle but a root pointing to itself: every key reaches a key that is
\* its own parent within as many steps as there are keys
Acyclic(par) ==
    /\ \A k \in DOMAIN par : par[k] \in DOMAIN par
    /\ \A k \in DOMAIN par :
          LET top == Ancestor(par, k, Cardinality(DOMAIN par)) IN par[top] = top

\* the root of a key of an acyclic parent map, read without any compression
RootOf(par, k) == Ancestor(par, k, Cardinality(DOMAIN par))

\* the pairs of keys of the map that share a root
SameRoot(par) == {pr \in (DOMAIN par) \X (DOMAIN par) : RootOf(par, pr[1]) = RootOf(par, pr[2])}

\* the iterations of the while loop of _find(p), counted up to fuel
RECURSIVE find_iterations(_, _, _)
find_iterations(par, p, fuel) ==
    IF fuel = 0 \/ par[p] = p THEN 0
    ELSE LET halved == [par EXCEPT ![p] = par[par[p]]]
         IN 1 + find_iterations(halved, halved[p], fuel - 1)

\* the wires the union loop has been through
UnitedWires ==
    IF phase \in {"symbols", "points"} THEN 0
    ELSE IF phase = "union" THEN wi - 1 ELSE Len(sch.wires)

\* the keys linked to a key of S by a chain of the first n wires
RECURSIVE ChainClosure(_, _)
ChainClosure(S, n) ==
    LET T == S \cup {_round_coord(sch.wires[m].end) :
                        m \in {w \in 1..n : _round_coord(sch.wires[w].start) \in S}}
               \cup {_round_coord(sch.wires[m].start) :
                        m \in {w \in 1..n : _round_coord(sch.wires[w].end) \in S}}
    IN IF T = S THEN S ELSE ChainClosure(T, n)

\* the keys a _find may be called with: those of the wires, and one apart
FindKeys == WireKeys \cup {<<1000, 1000>>}

\* the parent map once _find(p) has entered p
Entered(par, p) == IF p \in DOMAIN par THEN par ELSE (p :> p) @@ par

\* C25: after any sequence of _union calls over wire endpoint keys (any
\* order, repeated wires, wires whose two ends have one key) the parent map
\* has no cycle other than a root pointing to itself, every _find call
\* ends (within as many iterations as there are keys), two keys have the
\* same root exactly when a chain of wires links them, and the path
\* compression of a _find changes neither the root it returns nor which
\* keys share a root.
C25_UnionFindSound ==
    /\ Acyclic(parent)
    /\ \A a, b \in DOMAIN parent :
          (RootOf(parent, a) = RootOf(parent, b)) <=> (b \in ChainClosure({a}, UnitedWires))
    /\ \A n \in 1..UnitedWires :
          {_round_coord(sch.wires[n].start), _round_coord(sch.wires[n].end)} \subseteq DOMAIN parent
    /\ \A p \in FindKeys :
          LET before == Entered(parent, p)
              f == _find(parent, p)
          IN /\ find_iterations(before, p, Cardinality(DOMAIN before) + 1)
                   <= Cardinality(DOMAIN before)
             /\ Acyclic(f.parent)
             /\ f.root = RootOf(before, p)
             /\ DOMAIN f.parent = DOMAIN before
             /\ SameRoot(f.parent) = SameRoot(before)

\* three wires in a row, 1-2, 2-3, 3-4, have been united into one chain of
\* parents three links deep, which a _find of its far end shortens
C25_Witness ==
    /\ phase = "union"
    /\ wi = 4
    /\ Cardinality(DOMAIN parent) = 4
    /\ \E k \in DOMAIN parent :
          /\ Ancestor(parent, k, 2) # Ancestor(parent, k, 3)
          /\ _find(parent, k).parent # parent
    /\ \A a, b \in DOMAIN parent : RootOf(parent, a) = RootOf(parent, b)

(***************************************************************************)
(* Claims about the unconnected-pin check and the nets                     *)
(***************************************************************************)
\* the positions _is_point_connected compares a point with, in the order
\* of its loops: both ends of each wire, the labels, the power-symbol pins
ComparedPositions ==
    Flatten([n \in 1..Len(sch.wires) |-> <<sch.wires[n].start, sch.wires[n].end>>])
    \o [n \in 1..Len(sch.labels) |-> sch.labels[n].position]
    \o Flatten([s \in 1..Len(power_symbols) |->
                  [n \in 1..Len(power_symbols[s].pins) |-> power_symbols[s].pins[n].position]])

\* the position at which _is_point_connected returns True for pos
FoundFor(pos) ==
    ComparedPositions[CHOOSE n \in 1..Len(ComparedPositions) :
                         /\ within_tolerance(ComparedPositions[n], pos)
                         /\ \A m \in 1..(n - 1) : ~within_tolerance(ComparedPositions[m], pos)]

\* the check passes the pin over as connected: no no-connect marker stands
\* at the pin and _is_point_connected returns True
TreatedAsConnected(sp) ==
    LET pos == symbols[sp[1]].pins[sp[2]].position
    IN /\ \A n \in 1..Len(sch.no_connects) : _round_coord(sch.no_connects[n]) # _round_coord(pos)
       /\ _is_point_connected(pos, schematic_result)

\* the unconnected-pin check has run on the parsed schematic
UnconnectedPinsChecked == phase = "done" /\ "unconnected_pins" \in checked

\* C26: whenever _check_unconnected_pins treats a symbol pin as connected
\* because _is_point_connected finds a wire endpoint, label or power-symbol
\* pin at its position, the pin and that wire endpoint, label or power pin
\* are in one group of the net resolver (their keys have one root).
C26_CheckAgreesWithNets ==
    UnconnectedPinsChecked =>
        \A sp \in SymbolPins :
            TreatedAsConnected(sp) =>
                RootOf(parent, PinKey(sp))
                    = RootOf(parent, _round_coord(FoundFor(symbols[sp[1]].pins[sp[2]].position)))

(***************************************************************************)
(* Claims about the order of the wires                                     *)
(***************************************************************************)
\* a wire with its two ends exchanged
Swapped(wire) == [start |-> wire.end, end |-> wire.start]

\* the orders of n things
Orders(n) == {f \in [1..n -> 1..n] : \A a, b \in 1..n : a # b => f[a] # f[b]}

\* the wires in every order, every choice of wires turned round
WireVariants(wires) ==
    {[n \in 1..Len(wires) |-> IF n \in turned THEN Swapped(wires[f[n]]) ELSE wires[f[n]]] :
        f \in Orders(Len(wires)), turned \in SUBSET (1..Len(wires))}

\* the pin-reference sets of a nets mapping, one per entry
PinGroups(nts) == {{nts[n].pins[k].ref : k \in 1..Len(nts[n].pins)} : n \in 1..Len(nts)}

\* the nets parse_kicad_sch returns for the schematic with its wires replaced
NetsWithWires(wires) == SchAlone([sch EXCEPT !.wires = wires]).nets

\* the names the labels and power symbols of a group carry
NamesIn(g) ==
    {groups[g].items[n].net_name :
        n \in {m \in 1..Len(groups[g].items) : name_bearing(groups[g].items[m])}}

\* no group carries two different names
SingleNamed == \A g \in 1..Len(groups) : Cardinality(NamesIn(g)) <= 1

\* no label or power symbol carries a name of the synthesized form
NoSynthesizedName ==
    \A g \in 1..Len(groups) :
        \A n \in 1..Len(groups) : unnamed_net_name(n) \notin NamesIn(g)

\* C27 as stated: permuting the wires, or swapping the start and end of any
\* wire, leaves the set of pin groups reported in nets unchanged, for every
\* schematic, those where one group carries several different labels
\* included.
C27_WireOrderIrrelevant ==
    Done => \A v \in WireVariants(sch.wires) : PinGroups(NetsWithWires(v)) = PinGroups(nets)

\* C27 amended: the same, for every schematic in which no connected group
\* carries two different names and no label or power symbol is named like
\* a synthesized net.
C27_WireOrderIrrelevantSingleNames ==
    (Done /\ SingleNamed /\ NoSynthesizedName) =>
        \A v \in WireVariants(sch.wires) : PinGroups(NetsWithWires(v)) = PinGroups(nets)

\* two wires join R1:1 and R3:1 by way of the labelled free point; another
\* order of the wires gives other synthesized names, the same pin groups
C27_Witness ==
    /\ Done /\ SingleNamed /\ NoSynthesizedName
    /\ Len(sch.wires) = 2
    /\ Len(sch.labels) >= 1
    /\ {"R1:1", "R3:1"} \in PinGroups(nets)
    /\ \E v \in WireVariants(sch.wires) :
          /\ v # sch.wires
          /\ NetsWithWires(v) # nets
          /\ PinGroups(NetsWithWires(v)) = PinGroups(nets)

(***************************************************************************)
(* Claims about the numbers of the unnamed nets                            *)
(***************************************************************************)
\* the groups without a label or power symbol, and those of them that are
\* reported in nets (the ones holding a pin)
UnnamedGroups == {g \in 1..Len(groups) : ~GroupHasName(g)}
ReportedUnnamed == {g \in UnnamedGroups : GroupHasPin(g)}

\* the position of an unnamed group among all unnamed groups, in discovery
\* order
UnnamedRank(g) == Cardinality({h \in UnnamedGroups : h <= g})

\* the names of the synthesized form among the keys of nets
SynthesizedPresent ==
    {nets[n].name : n \in 1..Len(nets)} \cap {unnamed_net_name(n) : n \in 1..Len(groups)}

\* the pin references of a group, as nets holds them
GroupPinRefs(g) ==
    {pin_refs_of(groups[g].items)[k] : k \in 1..Len(pin_refs_of(groups[g].items))}

EntryPinRefs(n) == {nets[n].pins[k] : k \in 1..Len(nets[n].pins)}

\* no entry of nets holds pins of two different unnamed groups
NoSharedEntry ==
    \A n \in 1..Len(nets) :
        Cardinality({g \in ReportedUnnamed : GroupPinRefs(g) \cap EntryPinRefs(n) # {}}) <= 1

\* C28 as stated: the synthesized names present in nets are exactly
\* _unnamed_net_1 ... _unnamed_net_k, k being the number of unnamed groups
\* reported, and two different unnamed groups never share one entry.
C28_NumberedWithoutGaps ==
    Done =>
        /\ SynthesizedPresent
               = {unnamed_net_name(n) : n \in 1..Cardinality(ReportedUnnamed)}
        /\ NoSharedEntry

\* C28 amended: every unnamed group reported is entered under
\* _unnamed_net_n, n being its position among all unnamed groups formed,
\* those without a pin included, in discovery order; the numbers lie in
\* 1..unnamed_count, a number is skipped for each unnamed group without a
\* pin, and two different unnamed groups never share one entry; where no
\* label or power symbol is named like a synthesized net, these are all the
\* synthesized names present and each entry holds the pins of its group only.
C28_NumberedInDiscoveryOrder ==
    Done =>
        /\ unnamed_count = Cardinality(UnnamedGroups)
        /\ \A g \in ReportedUnnamed :
              LET n == NameIndex(nets, unnamed_net_name(UnnamedRank(g)))
              IN /\ n # 0
                 /\ GroupPinRefs(g) \subseteq EntryPinRefs(n)
                 /\ NoSynthesizedName => nets[n].pins = pin_refs_of(groups[g].items)
        /\ NoSynthesizedName =>
              SynthesizedPresent
                  = {unnamed_net_name(UnnamedRank(g)) : g \in ReportedUnnamed}
        /\ NoSharedEntry

\* a wire that touches nothing makes the first unnamed group, which holds no
\* pin: nets has _unnamed_net_2 and no _unnamed_net_1
C28_Witness ==
    /\ Done
    /\ NoSynthesizedName
    /\ \E g \in UnnamedGroups : UnnamedRank(g) = 1 /\ ~GroupHasPin(g)
    /\ \E g \in ReportedUnnamed : UnnamedRank(g) = 2
    /\ NameIndex(nets, unnamed_net_name(1)) = 0
    /\ NameIndex(nets, unnamed_net_name(2)) # 0
    /\ Cardinality(ReportedUnnamed) < unnamed_count

(***************************************************************************)
(* Claims about the junctions and the no-connect markers                   *)
(***************************************************************************)
\* the schematic without its junction and no_connect nodes
WithoutMarkers == [sch EXCEPT !.junctions = <<>>, !.no_connects = <<>>]

\* the groups made of junctions only
JunctionOnlyGroups ==
    {g \in 1..Len(groups) :
        \A n \in 1..Len(groups[g].items) : groups[g].items[n].type = "junction"}

\* C29: removing every junction and no_connect node from a schematic leaves
\* the nets mapping returned by parse_kicad_sch unchanged: same names, same
\* pin lists, same numbering of the unnamed nets.
C29_MarkersAddNoConnectivity ==
    Done => SchAlone(WithoutMarkers).nets = nets

\* a schematic with a junction on a point of its own, a junction and a
\* no_connect marker on a pin, and unnamed nets: the junction makes one more
\* group, the last one, and nets is what it is without the markers
C29_Witness ==
    /\ Done
    /\ Len(sch.junctions) = 2
    /\ sch.no_connects # <<>>
    /\ JunctionOnlyGroups # {}
    /\ \E g \in 1..Len(groups) :
          /\ GroupHasPin(g)
          /\ \E n \in 1..Len(groups[g].items) : groups[g].items[n].type = "junction"
    /\ \E n \in 1..Len(nets) : nets[n].name = unnamed_net_name(2)
    /\ SchAlone(WithoutMarkers).nets = nets
    /\ \A g \in JunctionOnlyGroups : \A h \in 1..Len(groups) : h > g => h \in JunctionOnlyGroups

====
